---------------------------- MODULE Spec2Model ----------------------------
(***************************************************************************)
(* A model of the escpos command engine and of the Printer that buffers    *)
(* its instructions: the Printer's instruction buffer, style state and     *)
(* options, the Driver boundary as the calls it receives, the Protocol's   *)
(* command builders, the parameter-length codec and the text encoder.      *)
(*                                                                         *)
(* Bytes are naturals in 0..255, a Command is a sequence of bytes, a text  *)
(* is a sequence of Unicode scalar values.  A Rust Result<T> is a record   *)
(* [ok, err, val]: err is "" when ok, else the PrinterError variant.       *)
(***************************************************************************)
EXTENDS Integers, Sequences, FiniteSets

VARIABLES
    printer,     \* the Printer: options, instructions, style_state
    driver,      \* the Printer's Driver: "console" or "transport"
    driver_log,  \* the Driver calls issued by the latest Printer call
    last,        \* the latest Printer call: name, result, the Printer before
    twin,        \* <<a second Printer given the same calls>>, or <<>>
    twin_log,    \* the Driver calls issued by the twin's latest call
    call,        \* the pure function under evaluation and its arguments
    ret,         \* its result, <<>> until it has returned
    statics,     \* the lazily built page-code tables
    threads      \* the threads that reach for a page-code table

vars == <<printer, driver, driver_log, last, twin, twin_log, call, ret,
          statics, threads>>

---------------------------------------------------------------------------
(* Bounds of the model *)

MaxInstr == 2         \* instructions the buffer may hold
MaxDataLen == 65800   \* byte length of a 2D payload
MaxTextLen == 3       \* characters of a text
MaxMaxLength == 4     \* the max_length argument of text()
MaxBarcodeLen == 13   \* characters of a barcode payload
MaxImageWidth == 9    \* pixel columns of a decoded image
MaxImageHeight == 2   \* pixel rows of a decoded image
MaxPixels == 10       \* pixels of a decoded image
MaxDimension == 65536 \* an image dimension: one past the largest u16
MaxThreads == 2       \* threads that reach for a page-code table

---------------------------------------------------------------------------
(* Results *)

Ok(v) == [ok |-> TRUE, err |-> "", val |-> v]
Err(kind) == [ok |-> FALSE, err |-> kind, val |-> <<>>]

(* Option<T>: None is the string "None" for the enumerations (page code,   *)
(* debug mode); an Option<usize> is the empty sequence or <<n>>.           *)
None == "None"
NoLimit == <<>>
Some(n) == <<n>>

RECURSIVE Concat(_)
Concat(seqs) == IF seqs = <<>> THEN <<>> ELSE Head(seqs) \o Concat(Tail(seqs))

---------------------------------------------------------------------------
(* domain/constants.rs *)

NUL == 0
LF == 10
ESC == 27
GS == 29
CAN == 24

ESC_HARDWARE_INIT == <<ESC, 64>>
ESC_HARDWARE_RESET == <<ESC, 63, LF, 0>>
ESC_CASH_DRAWER_2 == <<ESC, 112, 0>>
ESC_CASH_DRAWER_5 == <<ESC, 112, 1>>
GS_PAPER_CUT_FULL == <<GS, 86, 65, 0>>
GS_PAPER_CUT_PARTIAL == <<GS, 86, 65, 1>>
ESC_PAPER_FEED == <<ESC, 100>>
ESC_CHARACTER_PAGE_CODE == <<ESC, 116>>
ESC_CHARACTER_SET == <<ESC, 82>>
ESC_TEXT_EMPHASIS_OFF == <<ESC, 69, 0>>
ESC_TEXT_EMPHASIS_ON == <<ESC, 69, 1>>
ESC_TEXT_UNDERLINE_NONE == <<ESC, 45, 0>>
ESC_TEXT_UNDERLINE_SIMPLE == <<ESC, 45, 1>>
ESC_TEXT_UNDERLINE_DOUBLE == <<ESC, 45, 2>>
ESC_TEXT_DOUBLE_STRIKE_OFF == <<ESC, 71, 0>>
ESC_TEXT_DOUBLE_STRIKE_ON == <<ESC, 71, 1>>
ESC_TEXT_FONT_A == <<ESC, 77, 0>>
ESC_TEXT_FONT_B == <<ESC, 77, 1>>
ESC_TEXT_FONT_C == <<ESC, 77, 2>>
ESC_TEXT_FLIP_OFF == <<ESC, 86, 0>>
ESC_TEXT_FLIP_ON == <<ESC, 86, 1>>
ESC_TEXT_JUSTIFY_LEFT == <<ESC, 97, 0>>
ESC_TEXT_JUSTIFY_CENTER == <<ESC, 97, 1>>
ESC_TEXT_JUSTIFY_RIGHT == <<ESC, 97, 2>>
GS_TEXT_REVERSE_COLOURS_OFF == <<GS, 66, 0>>
GS_TEXT_REVERSE_COLOURS_ON == <<GS, 66, 1>>
GS_TEXT_SMOOTHING_MODE_OFF == <<GS, 98, 0>>
GS_TEXT_SMOOTHING_MODE_ON == <<GS, 98, 1>>
ESC_TEXT_RESET_LINE_SPACING == <<ESC, 50>>
ESC_TEXT_LINE_SPACING == <<ESC, 51>>
GS_TEXT_SIZE_SELECT == <<GS, 33>>
ESC_TEXT_UPSIDE_DOWN_OFF == <<ESC, 123, 0>>
ESC_TEXT_UPSIDE_DOWN_ON == <<ESC, 123, 1>>
GS_2D == <<GS, 40, 107>>
GS_IMAGE_BITMAP_PREFIX == <<GS, 118, 48>>
GS_SET_MOTION_UNITS == <<GS, 80>>

(* The prefix of a real-time status request, DLE EOT: the wire form of a   *)
(* request is [0x10, 0x04, n, a].                                          *)
DLE_REAL_TIME_STATUS == <<16, 4>>

---------------------------------------------------------------------------
(* domain/character.rs, domain/types.rs: enumerations *)

(* impl From<PageCode> for u8 *)
PageCode_u8(value) ==
    CASE value = "PC437" -> 0      [] value = "Katakana" -> 1
      [] value = "PC850" -> 2      [] value = "PC860" -> 3
      [] value = "PC863" -> 4      [] value = "PC865" -> 5
      [] value = "Hiragana" -> 6   [] value = "PC851" -> 11
      [] value = "PC853" -> 12     [] value = "PC857" -> 13
      [] value = "PC737" -> 14     [] value = "ISO8859_7" -> 15
      [] value = "WPC1252" -> 16   [] value = "PC866" -> 17
      [] value = "PC852" -> 18     [] value = "PC858" -> 19
      [] value = "PC720" -> 32     [] value = "WPC775" -> 33
      [] value = "PC855" -> 34     [] value = "PC861" -> 35
      [] value = "PC862" -> 36     [] value = "PC864" -> 37
      [] value = "PC869" -> 38     [] value = "ISO8859_2" -> 39
      [] value = "ISO8859_15" -> 40 [] value = "PC1098" -> 41
      [] value = "PC1118" -> 42    [] value = "PC1119" -> 43
      [] value = "PC1125" -> 44    [] value = "WPC1250" -> 45
      [] value = "WPC1251" -> 46   [] value = "WPC1253" -> 47
      [] value = "WPC1254" -> 48   [] value = "WPC1255" -> 49
      [] value = "WPC1256" -> 50   [] value = "WPC1257" -> 51
      [] value = "WPC1258" -> 52   [] value = "KZ1048" -> 53

(* impl From<CharacterSet> for u8 *)
CharacterSet_u8(value) ==
    CASE value = "USA" -> 0        [] value = "France" -> 1
      [] value = "Germany" -> 2    [] value = "UK" -> 3
      [] value = "Denmark1" -> 4   [] value = "Sweden" -> 5
      [] value = "Italy" -> 6      [] value = "Spain1" -> 7
      [] value = "Japan" -> 8      [] value = "Norway" -> 9
      [] value = "Denmark2" -> 10  [] value = "Spain2" -> 11
      [] value = "LatinAmerica" -> 12 [] value = "Korea" -> 13
      [] value = "SloveniaCroatia" -> 14 [] value = "China" -> 15
      [] value = "Vietnam" -> 16   [] value = "Arabia" -> 17
      [] value = "IndiaDevanagari" -> 66 [] value = "IndiaBengali" -> 67
      [] value = "IndiaTamil" -> 68 [] value = "IndiaTelugu" -> 69
      [] value = "IndiaAssamese" -> 70 [] value = "IndiaOriya" -> 71
      [] value = "IndiaKannada" -> 72 [] value = "IndiaMalayalam" -> 73
      [] value = "IndiaGujarati" -> 74 [] value = "IndiaPunjabi" -> 75
      [] value = "IndiaMarathi" -> 82

(* impl From<RealTimeStatusRequest> for (u8, u8) *)
RealTimeStatusRequest_u8(value) ==
    CASE value = "Printer" -> <<1, 0>>
      [] value = "OfflineCause" -> <<2, 0>>
      [] value = "ErrorCause" -> <<3, 0>>
      [] value = "RollPaperSensor" -> <<4, 0>>
      [] value = "InkA" -> <<7, 1>>
      [] value = "InkB" -> <<7, 2>>
      [] value = "Peeler" -> <<8, 3>>
      [] value = "Interface" -> <<18, 1>>
      [] value = "DMD" -> <<18, 2>>

DebugModeSet == {None, "Dec", "Hex"}

---------------------------------------------------------------------------
(* domain/protocol.rs: the command builders that cannot fail *)

Protocol_init == ESC_HARDWARE_INIT

Protocol_reset == ESC_HARDWARE_RESET

Protocol_cancel == <<CAN>>

Protocol_cut(partial) ==
    IF partial THEN GS_PAPER_CUT_PARTIAL ELSE GS_PAPER_CUT_FULL

Protocol_page_code(code) == Append(ESC_CHARACTER_PAGE_CODE, PageCode_u8(code))

Protocol_character_set(code) ==
    Append(ESC_CHARACTER_SET, CharacterSet_u8(code))

Protocol_bold(enabled) ==
    IF enabled THEN ESC_TEXT_EMPHASIS_ON ELSE ESC_TEXT_EMPHASIS_OFF

Protocol_underline(mode) ==
    CASE mode = "None" -> ESC_TEXT_UNDERLINE_NONE
      [] mode = "Single" -> ESC_TEXT_UNDERLINE_SIMPLE
      [] mode = "Double" -> ESC_TEXT_UNDERLINE_DOUBLE

Protocol_double_strike(enabled) ==
    IF enabled THEN ESC_TEXT_DOUBLE_STRIKE_ON ELSE ESC_TEXT_DOUBLE_STRIKE_OFF

Protocol_font(font) ==
    CASE font = "A" -> ESC_TEXT_FONT_A
      [] font = "B" -> ESC_TEXT_FONT_B
      [] font = "C" -> ESC_TEXT_FONT_C

Protocol_flip(enabled) ==
    IF enabled THEN ESC_TEXT_FLIP_ON ELSE ESC_TEXT_FLIP_OFF

Protocol_justify(mode) ==
    CASE mode = "LEFT" -> ESC_TEXT_JUSTIFY_LEFT
      [] mode = "CENTER" -> ESC_TEXT_JUSTIFY_CENTER
      [] mode = "RIGHT" -> ESC_TEXT_JUSTIFY_RIGHT

Protocol_reverse_colours(enabled) ==
    IF enabled THEN GS_TEXT_REVERSE_COLOURS_ON ELSE GS_TEXT_REVERSE_COLOURS_OFF

Protocol_smoothing(enabled) ==
    IF enabled THEN GS_TEXT_SMOOTHING_MODE_ON ELSE GS_TEXT_SMOOTHING_MODE_OFF

Protocol_feed(lines) == Append(ESC_PAPER_FEED, lines)

Protocol_reset_line_spacing == ESC_TEXT_RESET_LINE_SPACING

Protocol_line_spacing(value) == Append(ESC_TEXT_LINE_SPACING, value)

Protocol_upside_down(enabled) ==
    IF enabled THEN ESC_TEXT_UPSIDE_DOWN_ON ELSE ESC_TEXT_UPSIDE_DOWN_OFF

Protocol_cash_drawer(pin) ==
    CASE pin = "Pin2" -> ESC_CASH_DRAWER_2
      [] pin = "Pin5" -> ESC_CASH_DRAWER_5

Protocol_motion_units(x, y) == GS_SET_MOTION_UNITS \o <<x, y>>

Protocol_real_time_status(status) ==
    DLE_REAL_TIME_STATUS \o RealTimeStatusRequest_u8(status)

(* A text_size that takes widths and heights up to 16 *)
Protocol_text_size_lenient(width, height) ==
    IF ~(width >= 1 /\ width <= 16) THEN Err("Input")
    ELSE IF ~(height >= 1 /\ height <= 16) THEN Err("Input")
    ELSE Ok(Append(GS_TEXT_SIZE_SELECT,
                   (((width - 1) * 16) % 256) + (height - 1)))

(* Protocol::text_size: width and height are u8, each checked against      *)
(* 1..=8 before the size byte ((width - 1) << 4) | (height - 1) is built;   *)
(* below 8 the two nibbles do not overlap, so the OR is a sum.              *)
Protocol_text_size(width, height) ==
    IF ~(width >= 1 /\ width <= 8) THEN Err("Input")
    ELSE IF ~(height >= 1 /\ height <= 8) THEN Err("Input")
    ELSE Ok(Append(GS_TEXT_SIZE_SELECT,
                   (((width - 1) * 16) % 256) + (height - 1)))

---------------------------------------------------------------------------
(* io/encoder.rs: Encoder::encode with the default codec, UTF_8.  Every    *)
(* Unicode scalar value is mappable, so the unmappable branch is never     *)
(* taken and the result is the UTF-8 encoding of the text.                 *)

Utf8(c) ==
    IF c < 128 THEN <<c>>
    ELSE IF c < 2048 THEN <<192 + (c \div 64), 128 + (c % 64)>>
    ELSE IF c < 65536 THEN
        <<224 + (c \div 4096), 128 + ((c \div 64) % 64), 128 + (c % 64)>>
    ELSE <<240 + (c \div 262144), 128 + ((c \div 4096) % 64),
           128 + ((c \div 64) % 64), 128 + (c % 64)>>

(* The encodings of the characters, concatenated: of the two halves of a  *)
(* text, so that the recursion stays shallow on a long text               *)
RECURSIVE Utf8Text(_)
Utf8Text(text) ==
    IF text = <<>> THEN <<>>
    ELSE IF Len(text) = 1 THEN Utf8(text[1])
    ELSE LET half == Len(text) \div 2 IN
         Utf8Text(SubSeq(text, 1, half))
            \o Utf8Text(SubSeq(text, half + 1, Len(text)))

Encoder_encode(data) == Ok(Utf8Text(data))

---------------------------------------------------------------------------
(* domain/page_codes.rs: the page-code tables *)

(* The HashMap<char, u8> collected from an array literal: enumerate, drop   *)
(* the '\0' placeholders when the chain filters them, map the character at *)
(* index i (from 0) to the byte i + base; a character listed twice keeps   *)
(* the byte of its last occurrence, as HashMap::from_iter does.            *)
HashMapOf(chars, base, filtered) ==
    LET kept == {i \in 1..Len(chars) : ~filtered \/ chars[i] # 0}
        lastIndex(c) ==
            CHOOSE i \in kept : chars[i] = c /\
                \A j \in kept : chars[j] = c => j <= i
    IN [c \in {chars[i] : i \in kept} |-> ((lastIndex(c) - 1) + base) % 256]

(* PC437_TABLE: the array literal of page_codes.rs, as Unicode scalar values in
   source order (128 entries); 0 is the '\0' placeholder. *)
PC437_TABLE ==
  HashMapOf(
  <<
    199, 252, 233, 226, 228, 224, 229, 231, 234, 235, 232, 239, 238, 236, 196, 197,
    201, 230, 198, 244, 246, 242, 251, 249, 255, 214, 220, 162, 163, 165, 8359, 402,
    225, 237, 243, 250, 241, 209, 170, 186, 191, 8976, 172, 189, 188, 161, 171, 187,
    9617, 9618, 9619, 9474, 9508, 9569, 9570, 9558, 9557, 9571, 9553, 9559, 9565, 9564, 9563, 9488,
    9492, 9524, 9516, 9500, 9472, 9532, 9566, 9567, 9562, 9556, 9577, 9574, 9568, 9552, 9580, 9575,
    9576, 9572, 9573, 9561, 9560, 9554, 9555, 9579, 9578, 9496, 9484, 9608, 9604, 9612, 9616, 9600,
    945, 223, 915, 960, 931, 963, 181, 964, 934, 920, 937, 948, 8734, 966, 949, 8745,
    8801, 177, 8805, 8804, 8992, 8993, 247, 8776, 176, 8729, 183, 8730, 8319, 178, 9632, 160
  >>, 128, FALSE)

(* PC852_TABLE: the array literal of page_codes.rs, as Unicode scalar values in
   source order (128 entries); 0 is the '\0' placeholder. *)
PC852_TABLE ==
  HashMapOf(
  <<
    199, 252, 233, 226, 228, 367, 263, 231, 322, 235, 336, 337, 238, 377, 196, 262,
    201, 313, 314, 244, 246, 317, 318, 346, 347, 214, 220, 356, 357, 321, 215, 269,
    225, 237, 243, 250, 260, 261, 381, 382, 280, 281, 172, 378, 268, 351, 171, 187,
    9617, 9618, 9619, 9474, 9508, 193, 194, 282, 350, 9571, 9553, 9559, 9565, 379, 380, 9488,
    9492, 9524, 9516, 9500, 9472, 9532, 258, 259, 9562, 9556, 9577, 9574, 9568, 9552, 9580, 164,
    273, 272, 270, 203, 271, 327, 205, 206, 283, 9496, 9484, 9608, 9604, 354, 366, 9600,
    211, 223, 212, 323, 324, 328, 352, 353, 340, 218, 341, 368, 253, 221, 355, 180,
    173, 733, 731, 711, 728, 167, 247, 184, 176, 168, 729, 369, 344, 345, 9632, 160
  >>, 128, FALSE)

(* PC858_TABLE: the array literal of page_codes.rs, as Unicode scalar values in
   source order (128 entries); 0 is the '\0' placeholder. *)
PC858_TABLE ==
  HashMapOf(
  <<
    199, 252, 233, 226, 228, 224, 229, 231, 234, 235, 232, 239, 238, 236, 196, 197,
    201, 230, 198, 244, 246, 242, 251, 249, 255, 214, 220, 248, 163, 216, 215, 402,
    225, 237, 243, 250, 241, 209, 170, 186, 174, 8976, 172, 189, 188, 161, 171, 187,
    9617, 9618, 9619, 9474, 9508, 193, 194, 192, 169, 9571, 9553, 9559, 9565, 162, 165, 9488,
    9492, 9524, 9516, 9500, 9472, 9532, 227, 195, 9562, 9556, 9577, 9574, 9568, 9552, 9580, 164,
    240, 208, 202, 203, 200, 8364, 205, 206, 207, 9496, 9484, 9608, 9604, 166, 204, 9600,
    211, 223, 212, 212, 245, 213, 181, 254, 222, 218, 219, 217, 253, 221, 175, 180,
    45, 177, 8215, 190, 182, 167, 247, 184, 176, 168, 183, 185, 179, 178, 9632, 160
  >>, 128, FALSE)

(* PC860_TABLE: the array literal of page_codes.rs, as Unicode scalar values in
   source order (128 entries); 0 is the '\0' placeholder. *)
PC860_TABLE ==
  HashMapOf(
  <<
    199, 252, 233, 226, 227, 224, 193, 231, 234, 202, 232, 205, 212, 236, 195, 194,
    201, 192, 200, 244, 245, 242, 218, 249, 204, 213, 220, 162, 163, 217, 8359, 211,
    225, 237, 243, 250, 241, 209, 170, 186, 191, 210, 172, 189, 188, 161, 171, 187,
    9617, 9618, 9619, 9474, 9508, 9569, 9570, 9558, 9557, 9571, 9553, 9559, 9565, 9564, 9563, 9488,
    9492, 9524, 9516, 9500, 9472, 9532, 9566, 9567, 9562, 9556, 9577, 9574, 9568, 9552, 9580, 9575,
    9576, 9572, 9573, 9561, 9560, 9554, 9555, 9579, 9578, 9496, 9484, 9608, 9604, 9612, 9616, 9600,
    945, 223, 915, 960, 931, 963, 181, 964, 934, 920, 937, 948, 8734, 966, 949, 8745,
    8801, 177, 8805, 8804, 8992, 8993, 247, 8776, 176, 8729, 183, 8730, 8319, 178, 9632, 160
  >>, 128, FALSE)

(* PC865_TABLE: the array literal of page_codes.rs, as Unicode scalar values in
   source order (128 entries); 0 is the '\0' placeholder. *)
PC865_TABLE ==
  HashMapOf(
  <<
    199, 252, 233, 226, 228, 224, 229, 231, 234, 235, 232, 239, 238, 236, 196, 197,
    201, 230, 198, 244, 246, 242, 251, 249, 255, 214, 220, 248, 163, 216, 8359, 402,
    225, 237, 243, 250, 241, 209, 170, 186, 191, 8976, 172, 189, 188, 161, 171, 164,
    9617, 9618, 9619, 9474, 9508, 9569, 9570, 9558, 9557, 9571, 9553, 9559, 9565, 9564, 9563, 9488,
    9492, 9524, 9516, 9500, 9472, 9532, 9566, 9567, 9562, 9556, 9577, 9574, 9568, 9552, 9580, 9575,
    9576, 9572, 9573, 9561, 9560, 9554, 9555, 9579, 9578, 9496, 9484, 9608, 9604, 9612, 9616, 9600,
    945, 223, 915, 960, 931, 963, 181, 964, 934, 920, 937, 948, 8734, 966, 949, 8745,
    8801, 177, 8805, 8804, 8992, 8993, 247, 8776, 176, 8729, 183, 8730, 8319, 178, 9632, 160
  >>, 128, FALSE)

(* ISO8859_2_TABLE: the array literal of page_codes.rs, as Unicode scalar values in
   source order (96 entries); 0 is the '\0' placeholder. *)
ISO8859_2_TABLE ==
  HashMapOf(
  <<
    160, 260, 728, 321, 164, 317, 346, 167, 168, 352, 350, 356, 377, 173, 381, 379,
    176, 261, 731, 322, 180, 318, 347, 711, 184, 353, 351, 357, 378, 733, 382, 380,
    340, 193, 194, 258, 196, 313, 262, 199, 268, 201, 280, 203, 282, 205, 206, 270,
    272, 323, 327, 211, 212, 336, 214, 215, 344, 366, 218, 368, 220, 221, 354, 223,
    341, 225, 226, 259, 228, 314, 263, 231, 269, 233, 281, 235, 283, 237, 238, 271,
    273, 324, 328, 243, 244, 337, 246, 247, 345, 367, 250, 369, 252, 253, 355, 729
  >>, 160, FALSE)

(* ISO8859_7_TABLE: the array literal of page_codes.rs, as Unicode scalar values in
   source order (95 entries); 0 is the '\0' placeholder. *)
ISO8859_7_TABLE ==
  HashMapOf(
  <<
    160, 8216, 8217, 163, 8364, 8367, 166, 167, 168, 169, 890, 171, 172, 173, 0, 8213,
    176, 177, 178, 179, 900, 901, 902, 183, 904, 905, 906, 187, 908, 189, 910, 911,
    912, 913, 914, 915, 916, 917, 918, 919, 920, 921, 922, 923, 924, 925, 926, 927,
    928, 929, 0, 931, 932, 933, 934, 935, 936, 937, 938, 939, 940, 941, 942, 943,
    944, 945, 946, 947, 948, 949, 950, 951, 952, 953, 954, 955, 956, 957, 958, 959,
    960, 961, 962, 963, 964, 965, 966, 967, 968, 969, 970, 971, 972, 973, 974
  >>, 160, TRUE)

(* ISO8859_15_TABLE: the array literal of page_codes.rs, as Unicode scalar values in
   source order (96 entries); 0 is the '\0' placeholder. *)
ISO8859_15_TABLE ==
  HashMapOf(
  <<
    160, 161, 162, 163, 8364, 165, 352, 167, 353, 169, 170, 171, 172, 173, 174, 175,
    176, 177, 178, 179, 381, 181, 182, 183, 382, 185, 186, 187, 338, 339, 376, 191,
    192, 193, 194, 195, 196, 197, 198, 199, 200, 201, 202, 203, 204, 205, 206, 207,
    208, 209, 210, 211, 212, 213, 214, 215, 216, 217, 218, 219, 220, 221, 222, 223,
    224, 225, 226, 227, 228, 229, 230, 231, 232, 233, 234, 235, 236, 237, 238, 239,
    240, 241, 242, 243, 244, 245, 246, 247, 248, 249, 250, 251, 252, 253, 254, 255
  >>, 160, FALSE)

(* WPC1252_TABLE: the array literal of page_codes.rs, as Unicode scalar values in
   source order (128 entries); 0 is the '\0' placeholder. *)
WPC1252_TABLE ==
  HashMapOf(
  <<
    8364, 0, 8218, 402, 8222, 8230, 8224, 8225, 710, 8240, 352, 8249, 338, 0, 381, 0,
    0, 8216, 8217, 8220, 8221, 8226, 8211, 8212, 732, 8482, 353, 8250, 339, 0, 382, 376,
    160, 161, 162, 163, 164, 165, 166, 167, 168, 169, 170, 171, 172, 173, 174, 175,
    176, 177, 178, 179, 180, 181, 182, 183, 184, 185, 186, 187, 188, 189, 190, 191,
    192, 193, 194, 195, 196, 197, 198, 199, 200, 201, 202, 203, 204, 205, 206, 207,
    208, 209, 210, 211, 212, 213, 214, 215, 216, 217, 218, 219, 220, 221, 222, 223,
    224, 225, 226, 227, 228, 229, 230, 231, 232, 233, 234, 235, 236, 237, 238, 239,
    240, 241, 242, 243, 244, 245, 246, 247, 248, 249, 250, 251, 252, 253, 254, 255
  >>, 128, TRUE)
(* A conversion that falls back to the PC437 table *)
PageCodeTable_try_from_default(value) ==
    IF value \in {"PC852", "PC858", "PC860", "PC865", "ISO8859_2",
                  "ISO8859_7", "ISO8859_15", "WPC1252"}
    THEN Ok(value)
    ELSE Ok("PC437")

(* impl TryFrom<PageCode> for PageCodeTable *)
PageCodeTable_try_from(value) ==
    IF value \in {"PC437", "PC852", "PC858", "PC860", "PC865", "ISO8859_2",
                  "ISO8859_7", "ISO8859_15", "WPC1252"}
    THEN Ok(value)
    ELSE Err("Input")

(* PageCodeTable::get_table *)
get_table(self) ==
    CASE self = "PC437" -> PC437_TABLE
      [] self = "PC852" -> PC852_TABLE
      [] self = "PC858" -> PC858_TABLE
      [] self = "PC860" -> PC860_TABLE
      [] self = "PC865" -> PC865_TABLE
      [] self = "ISO8859_2" -> ISO8859_2_TABLE
      [] self = "ISO8859_7" -> ISO8859_7_TABLE
      [] self = "ISO8859_15" -> ISO8859_15_TABLE
      [] self = "WPC1252" -> WPC1252_TABLE

(* lazy_static!: each *_TABLE is a static guarded by a std::sync::Once,    *)
(* built by the first dereference.  A static is [once, value, builds]:     *)
(* value is <<>> until the initializer has stored the HashMap it built,    *)
(* then <<[instance, map]>>, instance telling one built HashMap from       *)
(* another; builds counts the runs of the initializer.                     *)
StaticsAtStart ==
    [t \in {"PC437", "PC852", "PC858", "PC860", "PC865", "ISO8859_2",
            "ISO8859_7", "ISO8859_15", "WPC1252"} |->
        [once |-> "Incomplete", value |-> <<>>, builds |-> 0]]

(* A thread is idle, or in the dereference of a table ("deref"), or in the *)
(* table's initializer ("init"), or holds the reference it got ("hold")    *)
Threads == 1..MaxThreads

Idle == [pc |-> "idle", table |-> None, seen |-> <<>>]

ThreadsAtStart == [self \in Threads |-> Idle]

(* A dereference that runs the initializer whenever the static is not yet  *)
(* complete                                                                *)
call_once_unguarded(once) ==
    IF once = "Complete" THEN "done" ELSE "run"

(* Once::call_once, as the dereference of a lazy static uses it: the first *)
(* caller runs the initializer, a caller that arrives while it runs waits, *)
(* a caller that arrives after it has completed goes on.                   *)
call_once(once) ==
    CASE once = "Incomplete" -> "run"
      [] once = "Running" -> "wait"
      [] once = "Complete" -> "done"

(* PageCodeTable::get_table called by a thread: the match arm names the    *)
(* static it is about to dereference                                       *)
GetTable(self, table) ==
    /\ threads[self].pc = "idle"
    /\ threads' = [threads EXCEPT ![self].pc = "deref", ![self].table = table]
    /\ UNCHANGED <<printer, driver, driver_log, last, twin, twin_log, call,
                   ret, statics>>

(* &*_TABLE: the dereference enters call_once; the thread takes the        *)
(* initializer, or goes on with the reference to the stored value; while   *)
(* another thread runs the initializer it is blocked.                      *)
Deref(self) ==
    LET t == threads[self].table IN
    /\ threads[self].pc = "deref"
    /\ \E o \in {call_once(statics[t].once)} :
           \/ /\ o = "run"
              /\ statics' = [statics EXCEPT ![t].once = "Running"]
              /\ threads' = [threads EXCEPT ![self].pc = "init"]
           \/ /\ o = "done"
              /\ threads' = [threads EXCEPT ![self].pc = "hold",
                                            ![self].seen = statics[t].value]
              /\ UNCHANGED statics
    /\ UNCHANGED <<printer, driver, driver_log, last, twin, twin_log, call,
                   ret>>

(* The initializer: the array literal collected into a HashMap and stored  *)
(* in the static; call_once completes and the thread has its reference.    *)
Initialize(self) ==
    LET t == threads[self].table
        built == <<[instance |-> statics[t].builds + 1,
                    map |-> get_table(t)]>>
    IN  /\ threads[self].pc = "init"
        /\ statics' = [statics EXCEPT ![t] =
                          [once |-> "Complete", value |-> built,
                           builds |-> statics[t].builds + 1]]
        /\ threads' = [threads EXCEPT ![self].pc = "hold",
                                      ![self].seen = built]
        /\ UNCHANGED <<printer, driver, driver_log, last, twin, twin_log,
                       call, ret>>

(* The caller of get_table is done with the reference *)
Release(self) ==
    /\ threads[self].pc = "hold"
    /\ threads' = [threads EXCEPT ![self] = Idle]
    /\ UNCHANGED <<printer, driver, driver_log, last, twin, twin_log, call,
                   ret, statics>>

(* The tables Protocol::text dereferences for a page code: with a page     *)
(* code that has a table, get_table() is called once, before the first     *)
(* character is read; with none, or with one try_into rejects, no table is *)
(* touched.                                                                *)
text_tables(page_code) ==
    IF page_code = None THEN {}
    ELSE LET table == PageCodeTable_try_from(page_code) IN
         IF table.ok THEN {table.val} ELSE {}

(* A caller of get_table that would wait in call_once for the thread that  *)
(* runs the initializer                                                    *)
deref_waits(tables) ==
    \E t \in tables : call_once(statics[t].once) = "wait"

(* The statics after a call that dereferences the tables and runs to its   *)
(* end: the first dereference of a table runs its initializer, a later one *)
(* finds the table built and leaves it alone.                              *)
deref_all(tables) ==
    [t \in DOMAIN statics |->
        IF t \in tables /\ call_once(statics[t].once) = "run"
        THEN [once |-> "Complete",
              value |-> <<[instance |-> statics[t].builds + 1,
                           map |-> get_table(t)]>>,
              builds |-> statics[t].builds + 1]
        ELSE statics[t]]

---------------------------------------------------------------------------
(* domain/protocol.rs: Protocol::text *)

Truncate(cmd, len) == IF Len(cmd) > len THEN SubSeq(cmd, 1, len) ELSE cmd

(* The loop over text.chars() of the page-code branch: i counts the bytes   *)
(* emitted so far, the loop breaks when i >= max_length, a character of    *)
(* the table costs one byte, any other character is encoded by the encoder *)
(* and appended whole.                                                     *)
RECURSIVE text_loop(_, _, _, _, _)
text_loop(chars, table, max_length, i, cmd) ==
    IF chars = <<>> THEN Ok(cmd)
    ELSE IF max_length # NoLimit /\ i >= max_length[1] THEN Ok(cmd)
    ELSE LET c == Head(chars) IN
         IF c \in DOMAIN table
         THEN text_loop(Tail(chars), table, max_length, i + 1,
                        Append(cmd, table[c]))
         ELSE LET s == Encoder_encode(<<c>>) IN
              IF ~s.ok THEN s
              ELSE text_loop(Tail(chars), table, max_length,
                             i + Len(s.val), cmd \o s.val)

(* A text() that cuts the bytes of the page-code branch at max_length *)
Protocol_text_truncating(text, page_code, max_length) ==
    IF page_code # None
    THEN LET table == PageCodeTable_try_from(page_code) IN
         IF ~table.ok THEN table
         ELSE LET cmd == text_loop(text, get_table(table.val), NoLimit, 0,
                                   <<>>)
              IN  IF max_length = NoLimit THEN cmd
                  ELSE Ok(Truncate(cmd.val, max_length[1]))
    ELSE Encoder_encode(text)

Protocol_text(text, page_code, max_length) ==
    IF page_code # None
    THEN LET table == PageCodeTable_try_from(page_code) IN
         IF ~table.ok THEN table
         ELSE text_loop(text, get_table(table.val), max_length, 0, <<>>)
    ELSE IF max_length # NoLimit
         THEN LET cmd == Encoder_encode(text) IN
              IF cmd.ok THEN Ok(Truncate(cmd.val, max_length[1])) ELSE cmd
         ELSE Encoder_encode(text)

---------------------------------------------------------------------------
(* domain/common.rs: the parameter-length codec *)

U8_MAX == 255

(* u8::try_from of a non-negative integer: fails above 255 with a          *)
(* TryFromIntError, which errors.rs converts to PrinterError::Io.          *)
TryFromIntError == "Io"

u8_try_from(n) ==
    IF n >= 0 /\ n <= U8_MAX THEN Ok(n) ELSE Err(TryFromIntError)

(* A codec that wraps the high byte instead of refusing it *)
get_parameters_number_2_wrapping(data_bytes_len, padding) ==
    LET data_len == data_bytes_len + padding
    IN  Ok(<<data_len % 256, (data_len \div 256) % 256>>)

(* get_parameters_number_2(data, padding), with data given by its length   *)
(* in bytes.  isize::try_from(ph) cannot fail for a length that fits a     *)
(* usize, and data_len - 256 * ph is never negative, so checked_add_signed *)
(* always yields a value; the two u8 conversions remain.                   *)
get_parameters_number_2(data_bytes_len, padding) ==
    LET data_len == data_bytes_len + padding
        ph == data_len \div 256
        pl == data_len + (-256 * ph)
    IN  IF pl < 0 THEN Err("Input")
        ELSE LET l == u8_try_from(pl)
                 h == u8_try_from(ph)
             IN  IF ~l.ok THEN l
                 ELSE IF ~h.ok THEN h
                 ELSE Ok(<<l.val, h.val>>)

(* The 2D data-frame builders: GS ( k, pL, pH, cn, fn, m, then the data;   *)
(* data is the payload as bytes (data.as_bytes()).                         *)
DataFrame(data, padding, head) ==
    LET p == get_parameters_number_2(Len(data), padding) IN
    IF ~p.ok THEN p
    ELSE Ok(GS_2D \o p.val \o head \o data)

Protocol_qrcode_data(data) == DataFrame(data, 3, <<49, 80, 48>>)
Protocol_pdf417_data(data) == DataFrame(data, 3, <<48, 80, 48>>)
Protocol_maxi_code_data(data) == DataFrame(data, 3, <<50, 80, 48>>)
Protocol_data_matrix_data(data) == DataFrame(data, 3, <<54, 80, 48>>)
Protocol_aztec_data(data) == DataFrame(data, 3, <<53, 80, 48>>)
Protocol_gs1_databar_2d_data(data, code_type) ==
    DataFrame(data, 4, <<51, 80, 48, code_type>>)

---------------------------------------------------------------------------
(* domain/bit_image.rs: the raster command of a decoded image.  Decoding   *)
(* is the image crate's; its outcome enters as [ok |-> FALSE] (an          *)
(* ImageError) or as an image [ok |-> TRUE, width, height, gray],          *)
(* gray[y][x] being the red channel of the pixel after alpha removal and   *)
(* grayscale conversion.                                                   *)

DecodeError == [ok |-> FALSE]

BitImageSize_u8(size) ==
    CASE size = "Normal" -> 0
      [] size = "DoubleWidth" -> 1
      [] size = "DoubleHeight" -> 2
      [] size = "DoubleWidthAndHeight" -> 3

(* u16::try_from of an image dimension (a u32) *)
u16_try_from(n) ==
    IF n >= 0 /\ n <= 65535 THEN Ok(n) ELSE Err(TryFromIntError)

(* BitImage::width_bytes: ceil(width / 8), exact in f32 for a u16 width *)
width_bytes(image) ==
    LET w == u16_try_from(image.width) IN
    IF ~w.ok THEN w ELSE u16_try_from((w.val + 7) \div 8)

(* -256 * i16::try_from(h)?, for h in 0..255: the product leaves i16 from  *)
(* h = 129 on; a build with overflow checks panics there, a build without  *)
(* wraps.                                                                  *)
i16_mul(a, b, overflow_checks) ==
    LET p == a * b IN
    IF p >= -32768 /\ p <= 32767 THEN Ok(p)
    ELSE IF overflow_checks THEN Err("Panic")
    ELSE Ok(((p + 32768) % 65536) - 32768)

(* u16::checked_add_signed(..).ok_or(PrinterError::Input(..)) *)
checked_add_signed(v, d) ==
    IF v + d >= 0 /\ v + d <= 65535 THEN Ok(v + d) ELSE Err("Input")

(* The body BitImage::with_bytes_u8 and BitImage::height_u8 share: the low *)
(* and the high byte of a u16                                              *)
SplitU16(v, overflow_checks) ==
    LET h == v \div 256
        m == i16_mul(-256, h, overflow_checks)
    IN  IF ~m.ok THEN m
        ELSE LET l == checked_add_signed(v, m.val) IN
             IF ~l.ok THEN l
             ELSE LET lo == u8_try_from(l.val)
                      hi == u8_try_from(h)
                  IN  IF ~lo.ok THEN lo ELSE IF ~hi.ok THEN hi
                      ELSE Ok(<<lo.val, hi.val>>)

with_bytes_u8(image, overflow_checks) ==
    LET w == width_bytes(image) IN
    IF ~w.ok THEN w ELSE SplitU16(w.val, overflow_checks)

height_u8(image, overflow_checks) ==
    LET h == u16_try_from(image.height) IN
    IF ~h.ok THEN h ELSE SplitU16(h.val, overflow_checks)

(* BitImage::is_pixel_black *)
is_pixel_black(image, x, y) == image.gray[y + 1][x + 1] <= 128

(* The inner loop of raster_data: the byte of the up to 8 pixels from x; a *)
(* row's last byte stops at the width, without shifting further.           *)
RECURSIVE raster_byte(_, _, _, _, _)
raster_byte(image, x, y, bit, byte) ==
    IF bit >= 8 \/ x + bit >= image.width THEN byte
    ELSE raster_byte(image, x, y, bit + 1,
            ((byte * 2) % 256) +
            (IF is_pixel_black(image, x + bit, y) THEN 1 ELSE 0))

(* BitImage::raster_data: rows top to bottom, bytes left to right *)
raster_data(image) ==
    LET wb == (image.width + 7) \div 8 IN
    IF ~u16_try_from(image.width).ok \/ ~u16_try_from(image.height).ok
    THEN Err(TryFromIntError)
    ELSE Ok([k \in 1..(wb * image.height) |->
                raster_byte(image, ((k - 1) % wb) * 8, (k - 1) \div wb, 0, 0)])

(* Protocol::build_bit_image *)
build_bit_image(image, size, overflow_checks) ==
    LET w == with_bytes_u8(image, overflow_checks)
        h == height_u8(image, overflow_checks)
        d == raster_data(image)
    IN  IF ~w.ok THEN w ELSE IF ~h.ok THEN h ELSE IF ~d.ok THEN d
        ELSE Ok(GS_IMAGE_BITMAP_PREFIX \o <<BitImageSize_u8(size)>>
                \o w.val \o h.val \o d.val)

(* Protocol::bit_image: BitImage::new fails with the image crate's         *)
(* ImageError, which errors.rs converts to PrinterError::Io.               *)
Protocol_bit_image(decoded, size, overflow_checks) ==
    IF ~decoded.ok THEN Err("Io")
    ELSE build_bit_image(decoded, size, overflow_checks)

(* Protocol::bit_image_from_bytes: BitImage::from_bytes fails with the     *)
(* image crate's ImageError as BitImage::new does.                         *)
Protocol_bit_image_from_bytes(decoded, size, overflow_checks) ==
    IF ~decoded.ok THEN Err("Io")
    ELSE build_bit_image(decoded, size, overflow_checks)

---------------------------------------------------------------------------
(* domain/types.rs: Instruction *)

(* An Instruction whose commands are dropped when a debug mode is set *)
Instruction_new_debug_only(name, cmd, debug_mode) ==
    [name |-> name, command |-> IF debug_mode = None THEN cmd ELSE <<>>,
     debug_mode |-> debug_mode]

Instruction_new(name, cmd, debug_mode) ==
    [name |-> name, command |-> cmd, debug_mode |-> debug_mode]

(* Instruction::flatten_commands: the bytes of the instruction's commands, *)
(* in list order.                                                          *)
flatten_commands(instruction) == Concat(instruction.command)

---------------------------------------------------------------------------
(* printer.rs: PrinterStyleState, PrinterOptions and the Printer *)

PrinterStyleState_default ==
    [text_size |-> <<1, 1>>, justify_mode |-> "LEFT", font |-> "A",
     underline_mode |-> "None", bold |-> FALSE, double_strike |-> FALSE,
     reverse |-> FALSE, flip |-> FALSE]

DEFAULT_CHARACTERS_PER_LINE == 42

PrinterOptions_default ==
    [page_code |-> None, debug_mode |-> None,
     characters_per_line |-> DEFAULT_CHARACTERS_PER_LINE]

Printer_new ==
    [options |-> PrinterOptions_default, instructions |-> <<>>,
     style_state |-> PrinterStyleState_default]

(* The result of a Printer method: Ok(self) or Err(kind), the Printer as   *)
(* the call leaves it, and the Driver calls the call issued.               *)
POk(self) == [ok |-> TRUE, err |-> "", printer |-> self, log |-> <<>>]
PErr(self, kind) == [ok |-> FALSE, err |-> kind, printer |-> self, log |-> <<>>]

(* The Driver: call number k of a flush fails iff k = fail_at.  A failure  *)
(* is a transport error, PrinterError::Io.                                 *)
DriverOk(fail_at, k) == k # fail_at

(* Printer::reset_style_state that leaves the style state as it is *)
Printer_reset_style_state_keep(self) == self

Printer_reset_style_state(self) ==
    [self EXCEPT !.style_state = PrinterStyleState_default]

(* One driver.write call: the bytes handed over and the Driver's answer *)
WriteCall(data, ok) == [op |-> "write", data |-> data, ok |-> ok]

FlushCall(ok) == [op |-> "flush", data |-> <<>>, ok |-> ok]

(* A flush loop that writes the newest instruction first *)
flush_writes_newest_first(instructions, fail_at) ==
    LET n == Len(instructions)
        failing == {k \in 1..n : ~DriverOk(fail_at, k)}
        stop == IF failing = {} THEN n
                ELSE CHOOSE k \in failing : \A j \in failing : k <= j
    IN  [ok |-> failing = {},
         log |-> [k \in 1..stop |->
                    WriteCall(flatten_commands(instructions[n + 1 - k]),
                              DriverOk(fail_at, k))]]

(* A flush loop that hands the Driver the whole buffer in one write *)
flush_writes_batched(instructions, fail_at) ==
    [ok |-> DriverOk(fail_at, 1),
     log |-> <<WriteCall(Concat([k \in 1..Len(instructions) |->
                                   flatten_commands(instructions[k])]),
                         DriverOk(fail_at, 1))>>]

(* The loop of Printer::flush: one driver.write per instruction, in buffer *)
(* order, stopping at the first write that fails (the ? operator).         *)
flush_writes(instructions, fail_at) ==
    LET n == Len(instructions)
        failing == {k \in 1..n : ~DriverOk(fail_at, k)}
        stop == IF failing = {} THEN n
                ELSE CHOOSE k \in failing : \A j \in failing : k <= j
    IN  [ok |-> failing = {},
         log |-> [k \in 1..stop |->
                    WriteCall(flatten_commands(instructions[k]),
                              DriverOk(fail_at, k))]]

(* A flush that takes the written instructions out of the buffer when a    *)
(* later write fails                                                       *)
Printer_flush_draining(self, fail_at) ==
    LET w == flush_writes(self.instructions, fail_at) IN
    IF ~w.ok
    THEN [ok |-> FALSE, err |-> "Io",
          printer |-> [self EXCEPT !.instructions =
                          SubSeq(@, Len(w.log), Len(@))],
          log |-> w.log]
    ELSE LET res == DriverOk(fail_at, Len(self.instructions) + 1)
             log2 == Append(w.log, FlushCall(res))
         IN  IF ~res
             THEN [ok |-> FALSE, err |-> "Io", printer |-> self, log |-> log2]
             ELSE [ok |-> TRUE, err |-> "",
                   printer |-> Printer_reset_style_state(
                                  [self EXCEPT !.instructions = <<>>]),
                   log |-> log2]

(* A flush that calls driver.flush whatever the writes returned *)
Printer_flush_regardless(self, fail_at) ==
    LET w == flush_writes(self.instructions, fail_at)
        res == DriverOk(fail_at, Len(self.instructions) + 1)
        log2 == Append(w.log, FlushCall(res))
    IN  IF ~w.ok \/ ~res
        THEN [ok |-> FALSE, err |-> "Io", printer |-> self, log |-> log2]
        ELSE [ok |-> TRUE, err |-> "",
              printer |-> Printer_reset_style_state(
                             [self EXCEPT !.instructions = <<>>]),
              log |-> log2]

Printer_flush(self, fail_at) ==
    LET w == flush_writes(self.instructions, fail_at) IN
    IF ~w.ok THEN [ok |-> FALSE, err |-> "Io", printer |-> self, log |-> w.log]
    ELSE LET res == DriverOk(fail_at, Len(self.instructions) + 1)
             log2 == Append(w.log, FlushCall(res))
         IN  IF ~res
             THEN [ok |-> FALSE, err |-> "Io", printer |-> self, log |-> log2]
             ELSE [ok |-> TRUE, err |-> "",
                   printer |-> Printer_reset_style_state(
                                  [self EXCEPT !.instructions = <<>>]),
                   log |-> log2]

Printer_debug_mode(self, mode) == [self EXCEPT !.options.debug_mode = mode]

Printer_print(self, fail_at) == Printer_flush(self, fail_at)

(* A command that also hands its bytes to the Driver at once *)
Printer_command_unbuffered(self, label, cmd) ==
    [ok |-> TRUE, err |-> "",
     printer |-> [self EXCEPT !.instructions =
            Append(@, Instruction_new(label, cmd, self.options.debug_mode))],
     log |-> <<WriteCall(Concat(cmd), TRUE)>>]

(* Printer::command: the debug mode goes into the instruction and into the *)
(* log line; the instruction is pushed in every mode.                      *)
Printer_command(self, label, cmd) ==
    POk([self EXCEPT !.instructions =
            Append(@, Instruction_new(label, cmd, self.options.debug_mode))])

Printer_init(self) ==
    LET r == Printer_command(self, "initialization", <<Protocol_init>>) IN
    IF r.printer.options.page_code # None
    THEN Printer_command(r.printer, "character page code",
            <<Protocol_page_code(r.printer.options.page_code)>>)
    ELSE r

Printer_cut(self) ==
    Printer_command(self, "full paper cut", <<Protocol_cut(FALSE)>>)

Printer_print_cut(self, fail_at) ==
    Printer_print(
        Printer_command(self, "full paper cut", <<Protocol_cut(FALSE)>>).printer,
        fail_at)

Printer_page_code(self, code) ==
    Printer_command([self EXCEPT !.options.page_code = code],
                    "character page code", <<Protocol_page_code(code)>>)

Printer_bold(self, enabled) ==
    Printer_command([self EXCEPT !.style_state.bold = enabled],
                    "text bold", <<Protocol_bold(enabled)>>)

Printer_underline(self, mode) ==
    Printer_command([self EXCEPT !.style_state.underline_mode = mode],
                    "text underline", <<Protocol_underline(mode)>>)

Printer_double_strike(self, enabled) ==
    Printer_command([self EXCEPT !.style_state.double_strike = enabled],
                    "text double strike", <<Protocol_double_strike(enabled)>>)

Printer_font(self, font) ==
    Printer_command([self EXCEPT !.style_state.font = font],
                    "text font", <<Protocol_font(font)>>)

Printer_flip(self, enabled) ==
    Printer_command([self EXCEPT !.style_state.flip = enabled],
                    "text flip", <<Protocol_flip(enabled)>>)

Printer_justify(self, mode) ==
    Printer_command([self EXCEPT !.style_state.justify_mode = mode],
                    "text justify", <<Protocol_justify(mode)>>)

Printer_reverse(self, enabled) ==
    Printer_command([self EXCEPT !.style_state.reverse = enabled],
                    "text reverse colour", <<Protocol_reverse_colours(enabled)>>)

(* A size that records the text size before the range check *)
Printer_size_unchecked(self, width, height) ==
    LET cmd == Protocol_text_size(width, height)
        s == [self EXCEPT !.style_state.text_size = <<width, height>>]
    IN  IF ~cmd.ok THEN PErr(s, cmd.err)
        ELSE Printer_command(s, "text size", <<cmd.val>>)

Printer_size(self, width, height) ==
    LET cmd == Protocol_text_size(width, height) IN
    IF ~cmd.ok THEN PErr(self, cmd.err)
    ELSE Printer_command(
            [self EXCEPT !.style_state.text_size = <<width, height>>],
            "text size", <<cmd.val>>)

Printer_reset_size(self) ==
    LET cmd == Protocol_text_size(1, 1) IN
    IF ~cmd.ok THEN PErr(self, cmd.err)
    ELSE Printer_command([self EXCEPT !.style_state.text_size = <<1, 1>>],
                         "text size", <<cmd.val>>)

Printer_feed(self) == Printer_command(self, "line feed", <<Protocol_feed(1)>>)

Printer_write(self, text) ==
    LET cmd == Protocol_text(text, self.options.page_code, NoLimit) IN
    IF ~cmd.ok THEN PErr(self, cmd.err)
    ELSE Printer_command(self, "text", <<cmd.val>>)

Printer_writeln(self, text) ==
    LET r == Printer_write(self, text) IN
    IF ~r.ok THEN r ELSE Printer_feed(r.printer)

Printer_send_status(self, fail_at) == Printer_flush(self, fail_at)

(* Printer::bit_image_option: the cancel command is pushed before the     *)
(* image is read                                                           *)
Printer_bit_image_option(self, decoded, size, overflow_checks) ==
    LET r == Printer_command(self, "cancel data", <<Protocol_cancel>>)
        cmd == Protocol_bit_image(decoded, size, overflow_checks)
    IN  IF ~r.ok THEN r
        ELSE IF ~cmd.ok THEN PErr(r.printer, cmd.err)
        ELSE Printer_command(r.printer, "print bit image", <<cmd.val>>)

(* Printer::bit_image_from_bytes_option: as bit_image_option, on bytes in  *)
(* memory                                                                  *)
Printer_bit_image_from_bytes_option(self, decoded, size, overflow_checks) ==
    LET r == Printer_command(self, "cancel data", <<Protocol_cancel>>)
        cmd == Protocol_bit_image_from_bytes(decoded, size, overflow_checks)
    IN  IF ~r.ok THEN r
        ELSE IF ~cmd.ok THEN PErr(r.printer, cmd.err)
        ELSE Printer_command(r.printer, "print bit image from bytes",
                             <<cmd.val>>)

(* Printer::custom_with_page_code: page_code() first, then the bytes under *)
(* a label that ends in the page code's Display form, which is the name of *)
(* the variant.                                                            *)
Printer_custom_with_page_code(self, cmd, page_code) ==
    LET r == Printer_page_code(self, page_code) IN
    IF ~r.ok THEN r
    ELSE Printer_command(r.printer,
            "custom command width page code " \o page_code, <<cmd>>)

---------------------------------------------------------------------------
(* domain/codes/barcodes.rs.  A payload is the sequence of its characters  *)
(* (Unicode scalar values); data.len() is its length in UTF-8 bytes.       *)

CODE39_VALID_CHARS ==
    (48..57) \cup {36, 37, 42, 43, 45, 46, 47} \cup (65..90) \cup {32}

CODABAR_VALID_CHARS ==
    (48..57) \cup (65..68) \cup (97..100) \cup {36, 43, 45, 46, 47, 58}

(* impl From<BarcodeSystem> for u8 *)
BarcodeSystem_u8(value) ==
    CASE value = "UPCA" -> 0   [] value = "UPCE" -> 1
      [] value = "EAN13" -> 2  [] value = "EAN8" -> 3
      [] value = "CODE39" -> 4 [] value = "ITF" -> 5
      [] value = "CODABAR" -> 6

(* A validation whose UPC-E arm takes every listed length *)
Barcode_validate_upce_lengths(system, data) ==
    LET data_len == Len(Utf8Text(data))
        is_data_all_digits == \A i \in 1..Len(data) : data[i] \in 48..57
        accepted ==
            CASE system = "UPCA" ->
                     is_data_all_digits /\ data_len \in {11, 12}
              [] system = "UPCE" ->
                     \/ /\ is_data_all_digits
                        /\ data_len \in {6, 7, 8, 11, 12}
                     \/ (data # <<>> /\ data[1] = 48)
              [] system = "EAN8" ->
                     is_data_all_digits /\ data_len \in {7, 8}
              [] system = "EAN13" ->
                     is_data_all_digits /\ data_len \in {12, 13}
              [] system = "ITF" -> data_len >= 2 /\ is_data_all_digits
              [] system = "CODE39" ->
                     /\ data_len >= 1
                     /\ \A i \in 1..Len(data) : data[i] \in CODE39_VALID_CHARS
              [] system = "CODABAR" ->
                     /\ data_len >= 2
                     /\ \A i \in 1..Len(data) : data[i] \in CODABAR_VALID_CHARS
    IN  IF accepted THEN Ok(<<>>) ELSE Err("Input")

(* Barcode::validate; char::is_ascii_digit is '0'..='9'.  In the UPC-E arm *)
(* && binds tighter than ||, so the condition is                           *)
(* (digits && listed length && length == 6) || first is '0'.               *)
Barcode_validate(system, data) ==
    LET data_len == Len(Utf8Text(data))
        is_data_all_digits == \A i \in 1..Len(data) : data[i] \in 48..57
        accepted ==
            CASE system = "UPCA" ->
                     is_data_all_digits /\ data_len \in {11, 12}
              [] system = "UPCE" ->
                     \/ /\ is_data_all_digits
                        /\ data_len \in {6, 7, 8, 11, 12}
                        /\ data_len = 6
                     \/ (data # <<>> /\ data[1] = 48)
              [] system = "EAN8" ->
                     is_data_all_digits /\ data_len \in {7, 8}
              [] system = "EAN13" ->
                     is_data_all_digits /\ data_len \in {12, 13}
              [] system = "ITF" -> data_len >= 2 /\ is_data_all_digits
              [] system = "CODE39" ->
                     /\ data_len >= 1
                     /\ \A i \in 1..Len(data) : data[i] \in CODE39_VALID_CHARS
              [] system = "CODABAR" ->
                     /\ data_len >= 2
                     /\ \A i \in 1..Len(data) : data[i] \in CODABAR_VALID_CHARS
    IN  IF accepted THEN Ok(<<>>) ELSE Err("Input")

(* A constructor that skips the validation *)
Barcode_new_unvalidated(system, data, option) ==
    Ok([system |-> system, data |-> data, option |-> option])

(* Barcode::new *)
Barcode_new(system, data, option) ==
    LET v == Barcode_validate(system, data)
    IN  IF ~v.ok THEN v
        ELSE Ok([system |-> system, data |-> data, option |-> option])

(* impl From<BarcodeFont> for u8 *)
BarcodeFont_u8(value) ==
    CASE value = "A" -> 0 [] value = "B" -> 1 [] value = "C" -> 2
      [] value = "D" -> 3 [] value = "E" -> 4

(* impl From<BarcodePosition> for u8 *)
BarcodePosition_u8(value) ==
    CASE value = "None" -> 0  [] value = "Above" -> 1
      [] value = "Below" -> 2 [] value = "Both" -> 3

(* impl From<BarcodeWidth> for u8 *)
BarcodeWidth_u8(value) ==
    CASE value = "XS" -> 1 [] value = "S" -> 2 [] value = "M" -> 3
      [] value = "L" -> 4  [] value = "XL" -> 5

(* impl From<BarcodeHeight> for u8 *)
BarcodeHeight_u8(value) ==
    CASE value = "XS" -> 51 [] value = "S" -> 102 [] value = "M" -> 153
      [] value = "L" -> 204 [] value = "XL" -> 255

(* impl Default for BarcodeOption *)
BarcodeOption_default ==
    [width |-> "M", height |-> "S", font |-> "A", position |-> "Below"]

---------------------------------------------------------------------------
(* domain/protocol.rs: barcodes.  A BarcodeOption is the record of its     *)
(* four fields.                                                            *)

(* Protocol::barcode_height, on GS_BARCODE_HEIGHT = [GS, 'h'] *)
Protocol_barcode_height(height) ==
    IF height = 0 THEN Err("Input")
    ELSE Ok(<<GS, 104, height>>)

(* Protocol::barcode_width, on GS_BARCODE_WIDTH = [GS, 'w'] *)
Protocol_barcode_width(width) ==
    IF width = 0 THEN Err("Input")
    ELSE Ok(<<GS, 119, IF width > 5 THEN 5 ELSE width>>)

(* A barcode() that prints before it configures *)
Protocol_barcode_print_first(data, system, option) ==
    LET width == Protocol_barcode_width(BarcodeWidth_u8(option.width))
        height == Protocol_barcode_height(BarcodeHeight_u8(option.height))
    IN  IF ~width.ok THEN width
        ELSE IF ~height.ok THEN height
        ELSE Ok(<<<<GS, 107, BarcodeSystem_u8(system)>> \o Utf8Text(data)
                      \o <<NUL>>,
                  width.val, height.val,
                  <<GS, 102, BarcodeFont_u8(option.font)>>,
                  <<GS, 72, BarcodePosition_u8(option.position)>>>>)

(* Protocol::barcode: the five commands, the first two behind a ?, then    *)
(* barcode_font on GS_BARCODE_FONT = [GS, 'f'], barcode_position on        *)
(* GS_BARCODE_POSITION = [GS, 'H'] and barcode_print, which is             *)
(* GS_BARCODE_PRINT = [GS, 'k'], the system, data.as_bytes() and NUL.      *)
Protocol_barcode(data, system, option) ==
    LET width == Protocol_barcode_width(BarcodeWidth_u8(option.width))
        height == Protocol_barcode_height(BarcodeHeight_u8(option.height))
    IN  IF ~width.ok THEN width
        ELSE IF ~height.ok THEN height
        ELSE Ok(<<width.val, height.val,
                  <<GS, 102, BarcodeFont_u8(option.font)>>,
                  <<GS, 72, BarcodePosition_u8(option.position)>>,
                  <<GS, 107, BarcodeSystem_u8(system)>> \o Utf8Text(data)
                      \o <<NUL>>>>)

---------------------------------------------------------------------------
(* domain/codes/data_matrix.rs.  A DataMatrixType is <<"Square", d>> or    *)
(* <<"Rectangle", d1, d2>>.                                                *)

(* A conversion that takes every even side and height within the range *)
DataMatrixType_try_from_ranges(value) ==
    IF value[1] = "Square"
    THEN IF value[2] = 0 \/ (value[2] \in 10..144 /\ value[2] % 2 = 0)
         THEN Ok(<<0, value[2], value[2]>>) ELSE Err("Input")
    ELSE IF value[2] \in {8, 12, 16} /\ value[3] \in 0..48
         THEN Ok(<<1, value[2], value[3]>>) ELSE Err("Input")

(* impl TryFrom<DataMatrixType> for (u8, u8, u8) *)
DataMatrixType_try_from(value) ==
    IF value[1] = "Square"
    THEN IF value[2] \notin
                {0, 10, 12, 14, 16, 18, 20, 22, 24, 26, 32, 36, 40, 44, 48,
                 52, 64, 72, 80, 88, 96, 104, 120, 132, 144}
         THEN Err("Input")
         ELSE Ok(<<0, value[2], value[2]>>)
    ELSE IF <<value[2], value[3]>> \notin
                {<<8, 0>>, <<8, 18>>, <<8, 32>>, <<12, 0>>, <<12, 26>>,
                 <<12, 36>>, <<16, 0>>, <<16, 36>>, <<16, 48>>}
         THEN Err("Input")
         ELSE Ok(<<1, value[2], value[3]>>)

(* DataMatrixOption::new *)
DataMatrixOption_new(code_type, size) ==
    IF ~(size >= 2 /\ size <= 16) THEN Err("Input")
    ELSE Ok([code_type |-> code_type, size |-> size])

---------------------------------------------------------------------------
(* domain/codes/aztec.rs.  An AztecMode is <<"FullRange", n>> or           *)
(* <<"Compact", n>>.                                                       *)

(* A conversion that takes every full-range number up to 32 *)
AztecMode_try_from_from_zero(value) ==
    IF value[1] = "FullRange"
    THEN IF value[2] > 32 THEN Err("Input") ELSE Ok(<<0, value[2]>>)
    ELSE IF ~(value[2] >= 0 /\ value[2] <= 4) THEN Err("Input")
         ELSE Ok(<<1, value[2]>>)

(* impl TryFrom<AztecMode> for (u8, u8) *)
AztecMode_try_from(value) ==
    IF value[1] = "FullRange"
    THEN IF value[2] # 0 /\ ~(value[2] >= 4 /\ value[2] <= 32)
         THEN Err("Input")
         ELSE Ok(<<0, value[2]>>)
    ELSE IF ~(value[2] >= 0 /\ value[2] <= 4) THEN Err("Input")
         ELSE Ok(<<1, value[2]>>)

(* AztecOption::new *)
AztecOption_new(mode, size, correction_level) ==
    IF ~(size >= 2 /\ size <= 16) THEN Err("Input")
    ELSE IF ~(correction_level >= 5 /\ correction_level <= 95)
    THEN Err("Input")
    ELSE Ok([mode |-> mode, size |-> size,
             correction_level |-> correction_level])

---------------------------------------------------------------------------
(* domain/codes/pdf417.rs.  A Pdf417CorrectionLevel is <<"Level", k>> for  *)
(* Level0 .. Level8, or <<"Ratio", value>>.                                *)

(* impl TryFrom<Pdf417CorrectionLevel> for (u8, u8) *)
Pdf417CorrectionLevel_try_from(value) ==
    IF value[1] = "Level" THEN Ok(<<48, 48 + value[2]>>)
    ELSE IF value[2] >= 1 /\ value[2] <= 40 THEN Ok(<<49, value[2]>>)
    ELSE Err("Input")

(* impl From<Pdf417Type> for u8 *)
Pdf417Type_u8(value) ==
    CASE value = "Standard" -> 0 [] value = "Truncated" -> 1

(* Pdf417Option::new *)
Pdf417Option_new(columns, rows, width, row_height, code_type, correction_level) ==
    IF ~(columns >= 0 /\ columns <= 30) THEN Err("Input")
    ELSE IF rows # 0 /\ ~(rows >= 3 /\ rows <= 90) THEN Err("Input")
    ELSE Ok([columns |-> columns, rows |-> rows, width |-> width,
             row_height |-> row_height, code_type |-> code_type,
             correction_level |-> correction_level])

---------------------------------------------------------------------------
(* domain/protocol.rs: the 2D builders.  data is given by its bytes.  The  *)
(* GS_2D_PDF417_*, GS_2D_DATA_MATRIX_* and GS_2D_AZTEC_CODE_* constants    *)
(* are GS_2D followed by the bytes that the tests of protocol.rs expect    *)
(* (test_pdf417_columns .. test_aztec_print).                              *)

(* A pdf417() that leaves out a correction level it cannot resolve *)
Protocol_pdf417_skip_level(data, option) ==
    LET level == Pdf417CorrectionLevel_try_from(option.correction_level)
        frame == Protocol_pdf417_data(data)
    IN  IF ~frame.ok THEN frame
        ELSE Ok(<<GS_2D \o <<3, 0, 48, 65, option.columns>>,
                  GS_2D \o <<3, 0, 48, 66, option.rows>>,
                  GS_2D \o <<3, 0, 48, 67, option.width>>,
                  GS_2D \o <<3, 0, 48, 68, option.row_height>>,
                  GS_2D \o <<3, 0, 48, 70, Pdf417Type_u8(option.code_type)>>,
                  frame.val,
                  GS_2D \o <<3, 0, 48, 81, 48>>>>)

(* Protocol::pdf417 with pdf417_columns, pdf417_rows, pdf417_width,        *)
(* pdf417_row_height, pdf417_correction_level (behind a ?), pdf417_type,   *)
(* pdf417_data (behind a ?) and pdf417_print                               *)
Protocol_pdf417(data, option) ==
    LET level == Pdf417CorrectionLevel_try_from(option.correction_level)
        frame == Protocol_pdf417_data(data)
    IN  IF ~level.ok THEN level
        ELSE IF ~frame.ok THEN frame
        ELSE Ok(<<GS_2D \o <<3, 0, 48, 65, option.columns>>,
                  GS_2D \o <<3, 0, 48, 66, option.rows>>,
                  GS_2D \o <<3, 0, 48, 67, option.width>>,
                  GS_2D \o <<3, 0, 48, 68, option.row_height>>,
                  (GS_2D \o <<3, 0, 48, 69>>) \o level.val,
                  GS_2D \o <<3, 0, 48, 70, Pdf417Type_u8(option.code_type)>>,
                  frame.val,
                  GS_2D \o <<3, 0, 48, 81, 48>>>>)

(* Protocol::data_matrix with data_matrix_type (behind a ?),               *)
(* data_matrix_size, data_matrix_data (behind a ?) and data_matrix_print   *)
Protocol_data_matrix(data, option) ==
    LET type == DataMatrixType_try_from(option.code_type)
        frame == Protocol_data_matrix_data(data)
    IN  IF ~type.ok THEN type
        ELSE IF ~frame.ok THEN frame
        ELSE Ok(<<(GS_2D \o <<5, 0, 54, 66>>) \o type.val,
                  GS_2D \o <<3, 0, 54, 67, option.size>>,
                  frame.val,
                  GS_2D \o <<3, 0, 54, 81, 48>>>>)

(* Protocol::aztec with aztec_mode (behind a ?), aztec_size,               *)
(* aztec_correction_level, aztec_data (behind a ?) and aztec_print         *)
Protocol_aztec(data, option) ==
    LET mode == AztecMode_try_from(option.mode)
        frame == Protocol_aztec_data(data)
    IN  IF ~mode.ok THEN mode
        ELSE IF ~frame.ok THEN frame
        ELSE Ok(<<(GS_2D \o <<4, 0, 53, 66>>) \o mode.val,
                  GS_2D \o <<3, 0, 53, 67, option.size>>,
                  GS_2D \o <<4, 0, 53, 69, option.correction_level>>,
                  frame.val,
                  GS_2D \o <<3, 0, 53, 81, 48>>>>)

(* Protocol::qrcode with qrcode_model, qrcode_size, qrcode_correction_level, *)
(* qrcode_data (behind a ?) and qrcode_print; the u8 of QRCodeModel and of  *)
(* QRCodeCorrectionLevel are those of codes/qrcode.rs.                      *)
Protocol_qrcode(data, option) ==
    LET model == CASE option.model = "Model1" -> 49
                   [] option.model = "Model2" -> 50
                   [] option.model = "Micro" -> 51
        size == IF option.size > 15 THEN 15 ELSE option.size
        level == CASE option.correction_level = "L" -> 48
                   [] option.correction_level = "M" -> 49
                   [] option.correction_level = "Q" -> 50
                   [] option.correction_level = "H" -> 51
        frame == Protocol_qrcode_data(data)
    IN  IF ~frame.ok THEN frame
        ELSE Ok(<<GS_2D \o <<4, 0, 49, 65, model, 0>>,
                  GS_2D \o <<3, 0, 49, 67, size>>,
                  GS_2D \o <<3, 0, 49, 69, level>>,
                  frame.val,
                  GS_2D \o <<3, 0, 49, 81, 48>>>>)

(* Protocol::gs1_databar_2d with gs1_databar_2d_width,                     *)
(* gs1_databar_2d_expanded_width(0), gs1_databar_2d_data (behind a ?) and  *)
(* gs1_databar_2d_print; the u8 of GS1DataBar2DWidth and GS1DataBar2DType  *)
(* are those of codes/gs1_databar_2d.rs.                                   *)
Protocol_gs1_databar_2d(data, option) ==
    LET width == CASE option.width = "S" -> 2
                   [] option.width = "M" -> 1
                   [] option.width = "L" -> 4
        code_type == CASE option.code_type = "Stacked" -> 72
                       [] option.code_type = "StackedOmnidirectional" -> 73
                       [] option.code_type = "ExpandedStacked" -> 76
        frame == Protocol_gs1_databar_2d_data(data, code_type)
    IN  IF ~frame.ok THEN frame
        ELSE Ok(<<GS_2D \o <<3, 0, 51, 67, width>>,
                  GS_2D \o <<3, 0, 51, 71>> \o <<0, 0>>,
                  frame.val,
                  GS_2D \o <<3, 0, 51, 81, 48>>>>)

(* Protocol::maxi_code with maxi_code_mode, maxi_code_data (behind a ?)    *)
(* and maxi_code_print; mode is the number of the MaxiCodeMode, 2..6.      *)
Protocol_maxi_code(data, mode) ==
    LET frame == Protocol_maxi_code_data(data) IN
    IF ~frame.ok THEN frame
    ELSE Ok(<<GS_2D \o <<3, 0, 50, 65, 48 + mode>>,
              frame.val,
              GS_2D \o <<3, 0, 50, 81, 48>>>>)

---------------------------------------------------------------------------
(* domain/status.rs *)

(* The digits of format!("{response:08b}") reversed: binary(response)[i]   *)
(* is bit i - 1 of the byte, from the least significant; Rust indexes it   *)
(* from 0.                                                                 *)
binary(response) == [i \in 1..8 |-> (response \div (2 ^ (i - 1))) % 2]

(* A check of the two low bits only *)
is_pattern_valid_low_bits(data) ==
    IF Len(data) # 8 THEN FALSE
    ELSE IF data[1] # 0 \/ data[2] # 1 THEN FALSE
    ELSE TRUE

(* RealTimeStatusResponse::is_pattern_valid: data[0], data[1], data[4] and *)
(* data[7] of the source are data[1], data[2], data[5] and data[8] here.   *)
is_pattern_valid(data) ==
    IF Len(data) # 8 THEN FALSE
    ELSE IF data[1] # 0 \/ data[2] # 1 \/ data[5] # 1 \/ data[8] # 0
    THEN FALSE
    ELSE TRUE

(* A decoder that reports two flags for the interface category *)
RealTimeStatusResponse_parse_two_flags(request, response) ==
    LET b == binary(response) IN
    IF ~is_pattern_valid(b) THEN Err("InvalidResponse")
    ELSE Ok(
      CASE request = "Printer" ->
             [DrawerKickOutConnectorPin3Low |-> b[3] = 0,
              Online |-> b[4] = 0,
              WaitingForOnlineRecovery |-> b[6] = 1,
              PaperFeedButtonPressed |-> b[7] = 1]
        [] request = "OfflineCause" ->
             [CoverClosed |-> b[3] = 0,
              PaperFedByPaperFeedButton |-> b[4] = 1,
              PrintingStopsDueToPaperEnd |-> b[6] = 1,
              ErrorOccurred |-> b[7] = 1]
        [] request = "ErrorCause" ->
             [RecoverableErrorOccurred |-> b[3] = 1,
              AutocutterErrorOccurred |-> b[4] = 1,
              UnrecoverableErrorOccurred |-> b[6] = 1,
              AutoRecoverableErrorOccurred |-> b[7] = 1]
        [] request = "RollPaperSensor" ->
             [RollPaperNearEndSensorPaperAdequate |-> b[3] = 0 /\ b[4] = 0,
              RollPaperEndSensorPaperPresent |-> b[6] = 0 /\ b[7] = 0]
        [] request = "InkA" ->
             [InkNearEndDetected |-> b[3] = 1,
              InkEndDetected |-> b[4] = 1,
              InkCartridgeDetected |-> b[6] = 0,
              CleaningPerformed |-> b[7] = 1]
        [] request = "InkB" ->
             [InkNearEndDetected |-> b[3] = 1,
              InkEndDetected |-> b[4] = 1,
              InkCartridgeDetected |-> b[6] = 0]
        [] request = "Peeler" ->
             [WaitingForLabelToBeRemoved |-> b[3] = 1,
              PaperPresentInLabelPeelingDetector |-> b[6] = 0]
        [] request = "Interface" ->
             [PrintingMultipleInterfacesEnabled |-> b[3] = 1,
              DMDTransmissionStatusReady |-> b[3] = 0]
        [] request = "DMD" ->
             [DMDTransmissionStatusReady |-> b[3] = 0])


(* RealTimeStatusResponse::parse: the HashMap as a function from the flags *)
(* inserted to their values; b[3], b[4], b[6], b[7] are binary[2],         *)
(* binary[3], binary[5], binary[6] of the source.                          *)
RealTimeStatusResponse_parse(request, response) ==
    LET b == binary(response) IN
    IF ~is_pattern_valid(b) THEN Err("InvalidResponse")
    ELSE Ok(
      CASE request = "Printer" ->
             [DrawerKickOutConnectorPin3Low |-> b[3] = 0,
              Online |-> b[4] = 0,
              WaitingForOnlineRecovery |-> b[6] = 1,
              PaperFeedButtonPressed |-> b[7] = 1]
        [] request = "OfflineCause" ->
             [CoverClosed |-> b[3] = 0,
              PaperFedByPaperFeedButton |-> b[4] = 1,
              PrintingStopsDueToPaperEnd |-> b[6] = 1,
              ErrorOccurred |-> b[7] = 1]
        [] request = "ErrorCause" ->
             [RecoverableErrorOccurred |-> b[3] = 1,
              AutocutterErrorOccurred |-> b[4] = 1,
              UnrecoverableErrorOccurred |-> b[6] = 1,
              AutoRecoverableErrorOccurred |-> b[7] = 1]
        [] request = "RollPaperSensor" ->
             [RollPaperNearEndSensorPaperAdequate |-> b[3] = 0 /\ b[4] = 0,
              RollPaperEndSensorPaperPresent |-> b[6] = 0 /\ b[7] = 0]
        [] request = "InkA" ->
             [InkNearEndDetected |-> b[3] = 1,
              InkEndDetected |-> b[4] = 1,
              InkCartridgeDetected |-> b[6] = 0,
              CleaningPerformed |-> b[7] = 1]
        [] request = "InkB" ->
             [InkNearEndDetected |-> b[3] = 1,
              InkEndDetected |-> b[4] = 1,
              InkCartridgeDetected |-> b[6] = 0]
        [] request = "Peeler" ->
             [WaitingForLabelToBeRemoved |-> b[3] = 1,
              PaperPresentInLabelPeelingDetector |-> b[6] = 0]
        [] request = "Interface" ->
             [PrintingMultipleInterfacesEnabled |-> b[3] = 1]
        [] request = "DMD" ->
             [DMDTransmissionStatusReady |-> b[3] = 0])

---------------------------------------------------------------------------
(* domain/ui/line.rs: the Line component.  A Line is [font, size, justify, *)
(* style, width, offset]: font and justify are None or a value, size is    *)
(* <<>> or <<<<width, height>>>>, width is <<>> or <<n>>, style is         *)
(* <<name>> for the four named styles or <<"Custom", pattern>>.            *)

(* domain/common.rs: chars_number, on u8 arguments *)
chars_number(width, size) ==
    IF ~(size >= 1 /\ size <= 8) THEN Err("Input")
    ELSE Ok(width \div size)

(* str::repeat *)
str_repeat(pattern, n) ==
    [i \in 1..(Len(pattern) * n) |-> pattern[((i - 1) % Len(pattern)) + 1]]

(* String::from_utf8(line.as_bytes()[..n].to_vec())?, for n below the      *)
(* line's byte length: the first n bytes are a string iff the next byte    *)
(* starts a character (is not a continuation byte, 0x80..0xBF), and then   *)
(* hold as many characters as they have bytes that start one; a            *)
(* FromUtf8Error becomes PrinterError::Io.                                 *)
from_utf8_prefix(line, n) ==
    LET bytes == Utf8Text(line) IN
    IF bytes[n + 1] \in 128..191 THEN Err("Io")
    ELSE Ok(SubSeq(line, 1,
                   Cardinality({i \in 1..n : bytes[i] \notin 128..191})))

(* Line::set_style: the commands pushed and the text size and justify mode *)
(* the drawing is to use                                                   *)
Line_set_style(self, text_size, justify_mode, commands) ==
    LET c1 == IF self.font # None
              THEN Append(commands, Protocol_font(self.font)) ELSE commands
        sz == IF self.size # <<>>
              THEN Protocol_text_size(self.size[1][1], self.size[1][2])
              ELSE Ok(<<>>)
        c2 == IF self.size # <<>> THEN Append(c1, sz.val) ELSE c1
        c3 == IF self.justify # None
              THEN Append(c2, Protocol_justify(self.justify)) ELSE c2
    IN  IF ~sz.ok THEN sz
        ELSE Ok([text_size |-> IF self.size # <<>> THEN self.size[1]
                               ELSE text_size,
                 justify_mode |-> IF self.justify # None THEN self.justify
                                  ELSE justify_mode,
                 commands |-> c3])

(* A draw that emits the text and the line feed of an empty line too *)
Line_draw_always(self, chars_per_line, text_size, justify_mode, commands, overflow_checks) ==
    LET line_max_width == chars_number(chars_per_line, text_size) IN
    IF ~line_max_width.ok THEN line_max_width
    ELSE IF line_max_width.val < self.offset /\ overflow_checks
    THEN Err("Panic")
    ELSE
    LET room == (line_max_width.val - self.offset) % 256
        width == IF self.width = <<>> THEN line_max_width.val
                 ELSE self.width[1]
        line_width == IF width < room THEN width ELSE room
        line_pattern ==
            CASE self.style[1] = "Simple" -> <<45>>
              [] self.style[1] = "Double" -> <<61>>
              [] self.style[1] = "Dotted" -> <<46>>
              [] self.style[1] = "Dashed" -> <<45, 32>>
              [] OTHER -> self.style[2]
        spaces == [i \in 1..self.offset |-> 32]
        drawn == str_repeat(line_pattern, line_width)
        line == IF self.offset > 0
                THEN IF justify_mode = "LEFT" THEN spaces \o drawn
                     ELSE drawn \o spaces
                ELSE drawn
        cut == IF Len(Utf8Text(line)) > line_max_width.val
               THEN from_utf8_prefix(line, line_max_width.val)
               ELSE Ok(line)
        text == Protocol_text(cut.val, None, NoLimit)
    IN  IF ~cut.ok THEN cut
        ELSE IF ~text.ok THEN text
        ELSE Ok(commands \o <<text.val, Protocol_feed(1)>>)

(* Line::draw: line_max_width - self.offset is a u8 subtraction, which     *)
(* panics below zero in a build with overflow checks and wraps in a build  *)
(* without; a line that comes out empty emits nothing.                     *)
Line_draw(self, chars_per_line, text_size, justify_mode, commands, overflow_checks) ==
    LET line_max_width == chars_number(chars_per_line, text_size) IN
    IF ~line_max_width.ok THEN line_max_width
    ELSE IF line_max_width.val < self.offset /\ overflow_checks
    THEN Err("Panic")
    ELSE
    LET room == (line_max_width.val - self.offset) % 256
        width == IF self.width = <<>> THEN line_max_width.val
                 ELSE self.width[1]
        line_width == IF width < room THEN width ELSE room
        line_pattern ==
            CASE self.style[1] = "Simple" -> <<45>>
              [] self.style[1] = "Double" -> <<61>>
              [] self.style[1] = "Dotted" -> <<46>>
              [] self.style[1] = "Dashed" -> <<45, 32>>
              [] OTHER -> self.style[2]
        spaces == [i \in 1..self.offset |-> 32]
        drawn == str_repeat(line_pattern, line_width)
        line == IF self.offset > 0
                THEN IF justify_mode = "LEFT" THEN spaces \o drawn
                     ELSE drawn \o spaces
                ELSE drawn
        cut == IF Len(Utf8Text(line)) > line_max_width.val
               THEN from_utf8_prefix(line, line_max_width.val)
               ELSE Ok(line)
        text == Protocol_text(cut.val, None, NoLimit)
    IN  IF ~cut.ok THEN cut
        ELSE IF cut.val = <<>> THEN Ok(commands)
        ELSE IF ~text.ok THEN text
        ELSE Ok(commands \o <<text.val, Protocol_feed(1)>>)

(* Line::restore_style *)
Line_restore_style(self, style_state, commands) ==
    LET c1 == IF self.font # None
              THEN Append(commands, Protocol_font(style_state.font))
              ELSE commands
        sz == IF self.size # <<>>
              THEN Protocol_text_size(style_state.text_size[1],
                                      style_state.text_size[2])
              ELSE Ok(<<>>)
        c2 == IF self.size # <<>> THEN Append(c1, sz.val) ELSE c1
    IN  IF ~sz.ok THEN sz
        ELSE IF self.justify # None
        THEN Ok(Append(c2, Protocol_justify(style_state.justify_mode)))
        ELSE Ok(c2)

(* Line::render, which Protocol::draw_line returns *)
Line_render(self, options, style_state, overflow_checks) ==
    LET styled == Line_set_style(self, style_state.text_size,
                                 style_state.justify_mode, <<>>)
    IN  IF ~styled.ok THEN styled
        ELSE
        LET drawn == Line_draw(self, options.characters_per_line,
                               styled.val.text_size[1],
                               styled.val.justify_mode, styled.val.commands,
                               overflow_checks)
        IN  IF ~drawn.ok THEN drawn
            ELSE Line_restore_style(self, style_state, drawn.val)

(* Printer::draw_line *)
Printer_draw_line(self, line, overflow_checks) ==
    LET commands == Line_render(line, self.options, self.style_state,
                                overflow_checks)
    IN  IF ~commands.ok THEN PErr(self, commands.err)
        ELSE Printer_command(self, "draw line", commands.val)

---------------------------------------------------------------------------
(* printer.rs: the symbol builders.  Each constructs the symbol, asks the  *)
(* Protocol for its commands and pushes them as one instruction.           *)

(* impl fmt::Display for BarcodeSystem *)
BarcodeSystem_to_string(value) ==
    CASE value = "UPCA" -> "UPC-A" [] value = "UPCE" -> "UPC-E"
      [] value = "EAN8" -> "EAN8" [] value = "EAN13" -> "EAN13"
      [] value = "CODE39" -> "CODE39" [] value = "ITF" -> "ITF"
      [] value = "CODABAR" -> "CODABAR"

(* Printer::barcode, on the result of Barcode::new: the ? of its callers   *)
(* returns the constructor's error before barcode() is entered.            *)
Printer_barcode(self, barcode) ==
    IF ~barcode.ok THEN PErr(self, barcode.err)
    ELSE LET b == barcode.val
             commands == Protocol_barcode(b.data, b.system, b.option)
         IN  IF ~commands.ok THEN PErr(self, commands.err)
             ELSE Printer_command(self,
                     "print " \o BarcodeSystem_to_string(b.system)
                              \o " barcode",
                     commands.val)

QRCODE_MAX_DATA_SIZE == 7089

(* impl Default for QRCodeOption *)
QRCodeOption_default ==
    [model |-> "Model1", size |-> 4, correction_level |-> "H"]

(* QRCode::new with check_data; option is <<>> for None, <<o>> for Some(o) *)
QRCode_new(data, option) ==
    IF Len(data) > QRCODE_MAX_DATA_SIZE THEN Err("Input")
    ELSE Ok([data |-> data,
             option |-> IF option = <<>> THEN QRCodeOption_default
                        ELSE option[1]])

Printer_qrcode_builder(self, data, option) ==
    LET qrcode == QRCode_new(data, option) IN
    IF ~qrcode.ok THEN PErr(self, qrcode.err)
    ELSE LET commands == Protocol_qrcode(qrcode.val.data, qrcode.val.option)
         IN  IF ~commands.ok THEN PErr(self, commands.err)
             ELSE Printer_command(self, "print qrcode", commands.val)

(* 0-9, A-D and the punctuation an Expanded Stacked symbol takes *)
EXPANDED_STACKED_VALID_CHARS ==
    (48..57) \cup (65..68)
    \cup {32, 33, 34, 37, 36, 39, 40, 41, 42, 43, 44, 45, 46, 47, 58, 59, 60,
          61, 62, 63, 95, 123}

(* #[derive(Default)] for GS1DataBar2DOption *)
GS1DataBar2DOption_default == [width |-> "M", code_type |-> "Stacked"]

(* GS1DataBar2D::new with check_data, on the bytes of ASCII data *)
GS1DataBar2D_new(data, option) ==
    LET data_len == Len(data)
        is_data_all_digits == \A i \in 1..data_len : data[i] \in 48..57
        accepted ==
            IF option.code_type = "ExpandedStacked"
            THEN /\ data_len >= 0 /\ data_len < 256
                 /\ \A i \in 1..data_len :
                        data[i] \in EXPANDED_STACKED_VALID_CHARS
            ELSE is_data_all_digits /\ data_len = 13
    IN  IF accepted THEN Ok([data |-> data, option |-> option])
        ELSE Err("Input")

Printer_gs1_databar_2d_option(self, data, option) ==
    LET code == GS1DataBar2D_new(data, option) IN
    IF ~code.ok THEN PErr(self, code.err)
    ELSE LET commands == Protocol_gs1_databar_2d(code.val.data,
                                                 code.val.option)
         IN  IF ~commands.ok THEN PErr(self, commands.err)
             ELSE Printer_command(self, "print 2D GS1 DataBar", commands.val)

(* #[derive(Default)] for Pdf417Option *)
Pdf417Option_default ==
    [columns |-> 0, rows |-> 0, width |-> 0, row_height |-> 0,
     code_type |-> "Standard", correction_level |-> <<"Ratio", 1>>]

Printer_pdf417_option(self, data, option) ==
    LET commands == Protocol_pdf417(data, option) IN
    IF ~commands.ok THEN PErr(self, commands.err)
    ELSE Printer_command(self, "print PDF417", commands.val)

(* Printer::maxi_code_option; mode is the number of the MaxiCodeMode *)
Printer_maxi_code_option(self, data, mode) ==
    LET commands == Protocol_maxi_code(data, mode) IN
    IF ~commands.ok THEN PErr(self, commands.err)
    ELSE Printer_command(self, "print MaxiCode", commands.val)

(* impl Default for DataMatrixOption *)
DataMatrixOption_default == [code_type |-> <<"Square", 0>>, size |-> 3]

Printer_data_matrix_option(self, data, option) ==
    LET commands == Protocol_data_matrix(data, option) IN
    IF ~commands.ok THEN PErr(self, commands.err)
    ELSE Printer_command(self, "print DataMatrix", commands.val)

(* impl Default for AztecOption *)
AztecOption_default ==
    [mode |-> <<"FullRange", 0>>, size |-> 3, correction_level |-> 23]

Printer_aztec_option(self, data, option) ==
    LET commands == Protocol_aztec(data, option) IN
    IF ~commands.ok THEN PErr(self, commands.err)
    ELSE Printer_command(self, "print Aztec", commands.val)
---------------------------------------------------------------------------
(* The inputs the model draws its arguments from *)

(* Texts: A, -, e-acute (in most tables), omega-tonos, euro, a smiley      *)
TextAlphabet == {65, 45, 233, 974, 8364, 128522}

RECURSIVE TextsOfLen(_)
TextsOfLen(n) ==
    IF n = 0 THEN {<<>>}
    ELSE {Append(t, c) : t \in TextsOfLen(n - 1), c \in TextAlphabet}

Texts == UNION {TextsOfLen(n) : n \in 0..MaxTextLen}

PageCodesWithTable ==
    {"PC437", "PC852", "PC858", "PC860", "PC865", "ISO8859_2", "ISO8859_7",
     "ISO8859_15", "WPC1252"}

(* Arguments of the Printer's builder calls *)
WriteTexts == {<<65, 8364>>}
PageCodeArgs == {"Hiragana"}
SizeArgs == {<<2, 3>>, <<0, 1>>, <<1, 9>>}
ImageArgs ==
    {DecodeError,
     [ok |-> TRUE, width |-> 9, height |-> 1,
      gray |-> <<<<0, 255, 128, 129, 0, 0, 255, 255, 0>>>>]}

(* 4006381333931 *)
EAN13_SAMPLE == <<52, 48, 48, 54, 51, 56, 49, 51, 51, 51, 57, 51, 49>>

(* test123 *)
DATA_SAMPLE == <<116, 101, 115, 116, 49, 50, 51>>

(* Arguments of the symbol builders: for each barcode system a payload it  *)
(* takes and the empty one, which none takes; a 2D payload too long for a  *)
(* QR code                                                                 *)
BarcodeArgs(system) ==
    {<<>>,
     CASE system = "EAN13" -> EAN13_SAMPLE
       [] system = "EAN8" -> SubSeq(EAN13_SAMPLE, 1, 8)
       [] system = "UPCA" -> SubSeq(EAN13_SAMPLE, 1, 12)
       [] system = "UPCE" -> SubSeq(EAN13_SAMPLE, 1, 6)
       [] system = "CODE39" -> <<65, 49>>
       [] system = "CODABAR" -> <<65, 49, 66>>
       [] system = "ITF" -> SubSeq(EAN13_SAMPLE, 1, 4)}

BarcodeOptionArgs == {[BarcodeOption_default EXCEPT !.width = "L"]}

QrcodeArgs == {DATA_SAMPLE, [i \in 1..(QRCODE_MAX_DATA_SIZE + 1) |-> 49]}

(* A line of dashes over the whole width, and one whose size text_size     *)
(* rejects                                                                 *)
LineArgs ==
    {[font |-> None, size |-> s, justify |-> None, style |-> <<"Dashed">>,
      width |-> <<>>, offset |-> 0] : s \in {<<>>, <<<<0, 1>>>>}}

(* The first of the n Driver calls of a flush that fails, 0 for none.  A   *)
(* ConsoleDriver that shows no output returns Ok from every call; the      *)
(* transports (network, USB, HID, serial, file) may fail any call.         *)
FailAts(n) == IF driver = "console" THEN {0} ELSE 0..n

FlushOps == {"print", "print_cut", "send_status"}

---------------------------------------------------------------------------
(* The Printer as a state machine *)

NoCall == [fn |-> "none"]

(* twin is NoTwin where one Printer is modelled, else <<the twin>> *)
NoTwin == <<>>

InitWith(kind, twins) ==
    /\ printer = Printer_new
    /\ driver = kind
    /\ driver_log = <<>>
    /\ last = [op |-> "new", arg |-> <<>>, ok |-> TRUE, err |-> "",
               before |-> Printer_new]
    /\ twin \in twins
    /\ twin_log = <<>>
    /\ call = NoCall
    /\ ret = <<>>
    /\ statics = StaticsAtStart
    /\ threads = ThreadsAtStart

(* A Printer over a ConsoleDriver that shows no output *)
Init == InitWith("console", {NoTwin})

(* One Printer call, made on the Printer and, where there is one, on its  *)
(* twin alike: each takes the state the call leaves it in, the Driver      *)
(* calls of the call are recorded, the buffers stay within the bound.      *)
TwinPrinter == IF twin = NoTwin THEN printer ELSE twin[1]

StepOn(op, arg, result, twin_result, tables) ==
    \E r \in {result} :
        /\ Len(r.printer.instructions) <= MaxInstr
        /\ ~deref_waits(tables)
        /\ printer' = r.printer
        /\ driver_log' = r.log
        /\ last' = [op |-> op, arg |-> arg, ok |-> r.ok, err |-> r.err,
                    before |-> printer]
        /\ IF twin = NoTwin THEN UNCHANGED <<twin, twin_log>>
           ELSE \E t \in {twin_result} :
                    /\ Len(t.printer.instructions) <= MaxInstr
                    /\ twin' = <<t.printer>>
                    /\ twin_log' = t.log
        /\ statics' = deref_all(tables)
        /\ UNCHANGED <<driver, call, ret, threads>>

(* A call that reaches for no page-code table *)
Step(op, arg, result, twin_result) ==
    StepOn(op, arg, result, twin_result, {})

ResetStyleState ==
    Step("reset_style_state", <<>>,
             POk(Printer_reset_style_state(printer)),
             POk(Printer_reset_style_state(TwinPrinter)))

(* Printer::debug_mode, called on the Printer only *)
DebugMode ==
    \E m \in DebugModeSet :
        /\ printer' = Printer_debug_mode(printer, m)
        /\ driver_log' = <<>>
        /\ twin_log' = <<>>
        /\ last' = [op |-> "debug_mode", arg |-> m, ok |-> TRUE, err |-> "",
                    before |-> printer]
        /\ UNCHANGED <<driver, twin, call, ret, statics, threads>>

DoPrint ==
    \E f \in FailAts(Len(printer.instructions) + 1) :
        Step("print", f,
             Printer_print(printer, f),
             Printer_print(TwinPrinter, f))

PrintCut ==
    \E f \in FailAts(Len(printer.instructions) + 2) :
        Step("print_cut", f,
             Printer_print_cut(printer, f),
             Printer_print_cut(TwinPrinter, f))

SendStatus ==
    \E f \in FailAts(Len(printer.instructions) + 1) :
        Step("send_status", f,
             Printer_send_status(printer, f),
             Printer_send_status(TwinPrinter, f))

InitPrinter == Step("init", <<>>,
             Printer_init(printer),
             Printer_init(TwinPrinter))

Cut == Step("cut", <<>>,
             Printer_cut(printer),
             Printer_cut(TwinPrinter))

PageCode ==
    \E c \in PageCodeArgs :
        Step("page_code", c,
             Printer_page_code(printer, c),
             Printer_page_code(TwinPrinter, c))

Bold == \E e \in BOOLEAN : Step("bold", e,
             Printer_bold(printer, e),
             Printer_bold(TwinPrinter, e))

Underline ==
    \E m \in {"Single", "None"} :
        Step("underline", m,
             Printer_underline(printer, m),
             Printer_underline(TwinPrinter, m))

DoubleStrike ==
    \E e \in {TRUE} :
        Step("double_strike", e,
             Printer_double_strike(printer, e),
             Printer_double_strike(TwinPrinter, e))

Font == \E f \in {"B", "A"} : Step("font", f,
             Printer_font(printer, f),
             Printer_font(TwinPrinter, f))

Flip == \E e \in {TRUE} : Step("flip", e,
             Printer_flip(printer, e),
             Printer_flip(TwinPrinter, e))

Justify ==
    \E m \in {"CENTER"} :
        Step("justify", m,
             Printer_justify(printer, m),
             Printer_justify(TwinPrinter, m))

Reverse ==
    \E e \in {TRUE} : Step("reverse", e,
             Printer_reverse(printer, e),
             Printer_reverse(TwinPrinter, e))

Size ==
    \E s \in SizeArgs :
        Step("size", s,
             Printer_size(printer, s[1], s[2]),
             Printer_size(TwinPrinter, s[1], s[2]))

ResetSize == Step("reset_size", <<>>,
             Printer_reset_size(printer),
             Printer_reset_size(TwinPrinter))

Feed == Step("feed", <<>>,
             Printer_feed(printer),
             Printer_feed(TwinPrinter))

Write ==
    \E t \in WriteTexts :
        StepOn("write", t,
               Printer_write(printer, t),
               Printer_write(TwinPrinter, t),
               text_tables(printer.options.page_code)
                   \cup text_tables(TwinPrinter.options.page_code))

Writeln ==
    \E t \in WriteTexts :
        StepOn("writeln", t,
               Printer_writeln(printer, t),
               Printer_writeln(TwinPrinter, t),
               text_tables(printer.options.page_code)
                   \cup text_tables(TwinPrinter.options.page_code))

BitImageOption ==
    \E d \in ImageArgs, s \in {"Normal"}, c \in BOOLEAN :
        Step("bit_image_option", <<d, s>>,
             Printer_bit_image_option(printer, d, s, c),
             Printer_bit_image_option(TwinPrinter, d, s, c))

(* Printer::debug: a log line in a debug mode, nothing else *)
Debug ==
    Step("debug", <<>>,
             POk(printer),
             POk(TwinPrinter))

Reset ==
    Step("reset", <<>>,
             Printer_command(printer, "reset", <<Protocol_reset>>),
             Printer_command(TwinPrinter, "reset", <<Protocol_reset>>))

PartialCut ==
    Step("partial_cut", <<>>,
             Printer_command(printer, "partial paper cut",
                             <<Protocol_cut(TRUE)>>),
             Printer_command(TwinPrinter, "partial paper cut",
                             <<Protocol_cut(TRUE)>>))

CharacterSet ==
    \E c \in {"France"} :
        Step("character_set", c,
             Printer_command(printer, "international character set",
                             <<Protocol_character_set(c)>>),
             Printer_command(TwinPrinter, "international character set",
                             <<Protocol_character_set(c)>>))

Smoothing ==
    \E e \in {TRUE} :
        Step("smoothing", e,
             Printer_command(printer, "smoothing mode",
                             <<Protocol_smoothing(e)>>),
             Printer_command(TwinPrinter, "smoothing mode",
                             <<Protocol_smoothing(e)>>))

Feeds ==
    \E n \in {3} :
        Step("feeds", n,
             Printer_command(printer, "line feeds", <<Protocol_feed(n)>>),
             Printer_command(TwinPrinter, "line feeds", <<Protocol_feed(n)>>))

LineSpacing ==
    \E v \in {30} :
        Step("line_spacing", v,
             Printer_command(printer, "line spacing",
                             <<Protocol_line_spacing(v)>>),
             Printer_command(TwinPrinter, "line spacing",
                             <<Protocol_line_spacing(v)>>))

ResetLineSpacing ==
    Step("reset_line_spacing", <<>>,
             Printer_command(printer, "reset line spacing",
                             <<Protocol_reset_line_spacing>>),
             Printer_command(TwinPrinter, "reset line spacing",
                             <<Protocol_reset_line_spacing>>))

UpsideDown ==
    \E e \in {TRUE} :
        Step("upside_down", e,
             Printer_command(printer, "upside-down mode",
                             <<Protocol_upside_down(e)>>),
             Printer_command(TwinPrinter, "upside-down mode",
                             <<Protocol_upside_down(e)>>))

CashDrawer ==
    \E p \in {"Pin2"} :
        Step("cash_drawer", p,
             Printer_command(printer, "cash drawer",
                             <<Protocol_cash_drawer(p)>>),
             Printer_command(TwinPrinter, "cash drawer",
                             <<Protocol_cash_drawer(p)>>))

Custom ==
    \E c \in {<<213>>} :
        Step("custom", c,
             Printer_command(printer, "custom command", <<c>>),
             Printer_command(TwinPrinter, "custom command", <<c>>))

CustomWithPageCode ==
    \E c \in {<<213>>}, p \in {"PC858"} :
        Step("custom_with_page_code", <<c, p>>,
             Printer_custom_with_page_code(printer, c, p),
             Printer_custom_with_page_code(TwinPrinter, c, p))

MotionUnits ==
    \E x \in {180}, y \in {90} :
        Step("motion_units", <<x, y>>,
             Printer_command(printer, "set motion units",
                             <<Protocol_motion_units(x, y)>>),
             Printer_command(TwinPrinter, "set motion units",
                             <<Protocol_motion_units(x, y)>>))

RealTimeStatus ==
    \E s \in {"Printer"} :
        Step("real_time_status", s,
             Printer_command(printer, "real-time status",
                             <<Protocol_real_time_status(s)>>),
             Printer_command(TwinPrinter, "real-time status",
                             <<Protocol_real_time_status(s)>>))

Ean13 ==
    \E d \in BarcodeArgs("EAN13") :
        Step("ean13", d,
             Printer_barcode(printer,
                 Barcode_new("EAN13", d, BarcodeOption_default)),
             Printer_barcode(TwinPrinter,
                 Barcode_new("EAN13", d, BarcodeOption_default)))

Ean13Option ==
    \E d \in BarcodeArgs("EAN13") \ {<<>>}, o \in BarcodeOptionArgs :
        Step("ean13_option", <<d, o>>,
             Printer_barcode(printer, Barcode_new("EAN13", d, o)),
             Printer_barcode(TwinPrinter, Barcode_new("EAN13", d, o)))

Ean8 ==
    \E d \in BarcodeArgs("EAN8") :
        Step("ean8", d,
             Printer_barcode(printer,
                 Barcode_new("EAN8", d, BarcodeOption_default)),
             Printer_barcode(TwinPrinter,
                 Barcode_new("EAN8", d, BarcodeOption_default)))

Ean8Option ==
    \E d \in BarcodeArgs("EAN8") \ {<<>>}, o \in BarcodeOptionArgs :
        Step("ean8_option", <<d, o>>,
             Printer_barcode(printer, Barcode_new("EAN8", d, o)),
             Printer_barcode(TwinPrinter, Barcode_new("EAN8", d, o)))

Upca ==
    \E d \in BarcodeArgs("UPCA") :
        Step("upca", d,
             Printer_barcode(printer,
                 Barcode_new("UPCA", d, BarcodeOption_default)),
             Printer_barcode(TwinPrinter,
                 Barcode_new("UPCA", d, BarcodeOption_default)))

UpcaOption ==
    \E d \in BarcodeArgs("UPCA") \ {<<>>}, o \in BarcodeOptionArgs :
        Step("upca_option", <<d, o>>,
             Printer_barcode(printer, Barcode_new("UPCA", d, o)),
             Printer_barcode(TwinPrinter, Barcode_new("UPCA", d, o)))

Upce ==
    \E d \in BarcodeArgs("UPCE") :
        Step("upce", d,
             Printer_barcode(printer,
                 Barcode_new("UPCE", d, BarcodeOption_default)),
             Printer_barcode(TwinPrinter,
                 Barcode_new("UPCE", d, BarcodeOption_default)))

UpceOption ==
    \E d \in BarcodeArgs("UPCE") \ {<<>>}, o \in BarcodeOptionArgs :
        Step("upce_option", <<d, o>>,
             Printer_barcode(printer, Barcode_new("UPCE", d, o)),
             Printer_barcode(TwinPrinter, Barcode_new("UPCE", d, o)))

Code39 ==
    \E d \in BarcodeArgs("CODE39") :
        Step("code39", d,
             Printer_barcode(printer,
                 Barcode_new("CODE39", d, BarcodeOption_default)),
             Printer_barcode(TwinPrinter,
                 Barcode_new("CODE39", d, BarcodeOption_default)))

Code39Option ==
    \E d \in BarcodeArgs("CODE39") \ {<<>>}, o \in BarcodeOptionArgs :
        Step("code39_option", <<d, o>>,
             Printer_barcode(printer, Barcode_new("CODE39", d, o)),
             Printer_barcode(TwinPrinter, Barcode_new("CODE39", d, o)))

Codabar ==
    \E d \in BarcodeArgs("CODABAR") :
        Step("codabar", d,
             Printer_barcode(printer,
                 Barcode_new("CODABAR", d, BarcodeOption_default)),
             Printer_barcode(TwinPrinter,
                 Barcode_new("CODABAR", d, BarcodeOption_default)))

CodabarOption ==
    \E d \in BarcodeArgs("CODABAR") \ {<<>>}, o \in BarcodeOptionArgs :
        Step("codabar_option", <<d, o>>,
             Printer_barcode(printer, Barcode_new("CODABAR", d, o)),
             Printer_barcode(TwinPrinter, Barcode_new("CODABAR", d, o)))

Itf ==
    \E d \in BarcodeArgs("ITF") :
        Step("itf", d,
             Printer_barcode(printer,
                 Barcode_new("ITF", d, BarcodeOption_default)),
             Printer_barcode(TwinPrinter,
                 Barcode_new("ITF", d, BarcodeOption_default)))

ItfOption ==
    \E d \in BarcodeArgs("ITF") \ {<<>>}, o \in BarcodeOptionArgs :
        Step("itf_option", <<d, o>>,
             Printer_barcode(printer, Barcode_new("ITF", d, o)),
             Printer_barcode(TwinPrinter, Barcode_new("ITF", d, o)))

PrinterQrcode ==
    \E d \in QrcodeArgs :
        Step("qrcode", d,
             Printer_qrcode_builder(printer, d, <<>>),
             Printer_qrcode_builder(TwinPrinter, d, <<>>))

PrinterQrcodeOption ==
    \E d \in {DATA_SAMPLE},
       o \in {[model |-> "Model2", size |-> 16, correction_level |-> "L"]} :
        Step("qrcode_option", <<d, o>>,
             Printer_qrcode_builder(printer, d, <<o>>),
             Printer_qrcode_builder(TwinPrinter, d, <<o>>))

PrinterGs1Databar2dOption ==
    \E d \in {DATA_SAMPLE},
       o \in {[width |-> "L", code_type |-> "ExpandedStacked"],
               [width |-> "S", code_type |-> "StackedOmnidirectional"]} :
        Step("gs1_databar_2d_option", <<d, o>>,
             Printer_gs1_databar_2d_option(printer, d, o),
             Printer_gs1_databar_2d_option(TwinPrinter, d, o))

PrinterGs1Databar2d ==
    \E d \in {EAN13_SAMPLE, DATA_SAMPLE} :
        Step("gs1_databar_2d", d,
             Printer_gs1_databar_2d_option(printer, d,
                                           GS1DataBar2DOption_default),
             Printer_gs1_databar_2d_option(TwinPrinter, d,
                                           GS1DataBar2DOption_default))

(* An option Pdf417Option::new returns, whose correction level            *)
(* Protocol::pdf417 rejects, and one it takes                              *)
PrinterPdf417Option ==
    \E d \in {DATA_SAMPLE},
       o \in {[Pdf417Option_default EXCEPT !.correction_level = l] :
                  l \in {<<"Ratio", 0>>, <<"Level", 3>>}} :
        Step("pdf417_option", <<d, o>>,
             Printer_pdf417_option(printer, d, o),
             Printer_pdf417_option(TwinPrinter, d, o))

PrinterPdf417 ==
    \E d \in {DATA_SAMPLE} :
        Step("pdf417", d,
             Printer_pdf417_option(printer, d, Pdf417Option_default),
             Printer_pdf417_option(TwinPrinter, d, Pdf417Option_default))

PrinterMaxiCodeOption ==
    \E d \in {DATA_SAMPLE}, m \in {4} :
        Step("maxi_code_option", <<d, m>>,
             Printer_maxi_code_option(printer, d, m),
             Printer_maxi_code_option(TwinPrinter, d, m))

(* MaxiCodeMode::default() is Mode2 *)
PrinterMaxiCode ==
    \E d \in {DATA_SAMPLE} :
        Step("maxi_code", d,
             Printer_maxi_code_option(printer, d, 2),
             Printer_maxi_code_option(TwinPrinter, d, 2))

PrinterDataMatrixOption ==
    \E d \in {DATA_SAMPLE},
       o \in {[code_type |-> t, size |-> 16] :
                  t \in {<<"Square", 7>>, <<"Rectangle", 8, 18>>}} :
        Step("data_matrix_option", <<d, o>>,
             Printer_data_matrix_option(printer, d, o),
             Printer_data_matrix_option(TwinPrinter, d, o))

PrinterDataMatrix ==
    \E d \in {DATA_SAMPLE} :
        Step("data_matrix", d,
             Printer_data_matrix_option(printer, d, DataMatrixOption_default),
             Printer_data_matrix_option(TwinPrinter, d, DataMatrixOption_default))

PrinterAztecOption ==
    \E d \in {DATA_SAMPLE},
       o \in {[AztecOption_default EXCEPT !.mode = m] :
                  m \in {<<"Compact", 0>>, <<"Compact", 1>>}} :
        Step("aztec_option", <<d, o>>,
             Printer_aztec_option(printer, d, o),
             Printer_aztec_option(TwinPrinter, d, o))

PrinterAztec ==
    \E d \in {DATA_SAMPLE} :
        Step("aztec", d,
             Printer_aztec_option(printer, d, AztecOption_default),
             Printer_aztec_option(TwinPrinter, d, AztecOption_default))

(* Printer::bit_image: BitImageOption::default() has the size Normal *)
BitImage ==
    \E d \in ImageArgs, c \in {TRUE} :
        Step("bit_image", d,
             Printer_bit_image_option(printer, d, "Normal", c),
             Printer_bit_image_option(TwinPrinter, d, "Normal", c))

BitImageFromBytesOption ==
    \E d \in ImageArgs, s \in {"DoubleWidth"}, c \in BOOLEAN :
        Step("bit_image_from_bytes_option", <<d, s>>,
             Printer_bit_image_from_bytes_option(printer, d, s, c),
             Printer_bit_image_from_bytes_option(TwinPrinter, d, s, c))

BitImageFromBytes ==
    \E d \in ImageArgs, c \in {TRUE} :
        Step("bit_image_from_bytes", d,
             Printer_bit_image_from_bytes_option(printer, d, "Normal", c),
             Printer_bit_image_from_bytes_option(TwinPrinter, d, "Normal", c))

PrinterDrawLine ==
    \E l \in LineArgs, c \in BOOLEAN :
        Step("draw_line", l,
             Printer_draw_line(printer, l, c),
             Printer_draw_line(TwinPrinter, l, c))

Next ==
    \/ ResetStyleState \/ DoPrint \/ PrintCut \/ SendStatus
    \/ InitPrinter \/ Cut \/ PageCode
    \/ Bold \/ Underline \/ DoubleStrike \/ Font \/ Flip \/ Justify
    \/ Reverse \/ Size \/ ResetSize \/ Feed
    \/ Write \/ Writeln \/ BitImageOption
    \/ Debug \/ Reset \/ PartialCut \/ CharacterSet \/ Smoothing
    \/ Feeds \/ LineSpacing \/ ResetLineSpacing \/ UpsideDown
    \/ CashDrawer \/ Custom \/ CustomWithPageCode
    \/ MotionUnits \/ RealTimeStatus

Spec == Init /\ [][Next]_vars

(* The Printer given its builders that can fail: the barcodes, the 2D      *)
(* symbols, the images and the line                                        *)
NextBuilders ==
    \/ DoPrint
    \/ Ean13 \/ Ean13Option \/ Ean8 \/ Ean8Option \/ Upca \/ UpcaOption
    \/ Upce \/ UpceOption \/ Code39 \/ Code39Option
    \/ Codabar \/ CodabarOption \/ Itf \/ ItfOption
    \/ PrinterQrcode \/ PrinterQrcodeOption
    \/ PrinterGs1Databar2dOption \/ PrinterGs1Databar2d
    \/ PrinterPdf417Option \/ PrinterPdf417
    \/ PrinterMaxiCodeOption \/ PrinterMaxiCode
    \/ PrinterDataMatrixOption \/ PrinterDataMatrix
    \/ PrinterAztecOption \/ PrinterAztec
    \/ BitImageOption \/ BitImage \/ BitImageFromBytesOption \/ BitImageFromBytes
    \/ PrinterDrawLine

SpecBuilders == Init /\ [][NextBuilders]_vars

(* The Printer over a transport whose calls may fail, given builders that  *)
(* push instructions of one command and builders that push instructions   *)
(* of several (a barcode: five commands; a line: text and line feed)       *)
InitDriver == InitWith("transport", {NoTwin})

NextDriver ==
    \/ DoPrint \/ PrintCut \/ SendStatus \/ ResetStyleState
    \/ Bold \/ Font \/ Size \/ Write \/ Feed \/ BitImageOption
    \/ Ean13 \/ PrinterDrawLine

SpecDriver == InitDriver /\ [][NextDriver]_vars

(* Two Printers given the same calls over Drivers that answer alike: the   *)
(* twin is constructed with any debug mode and keeps it, the Printer's is  *)
(* changed at will by debug_mode().                                        *)
InitTwin ==
    InitWith("console",
             {<<[Printer_new EXCEPT !.options.debug_mode = m]>> :
                 m \in DebugModeSet})

NextTwin ==
    \/ DebugMode \/ DoPrint \/ Bold \/ Size \/ Write \/ BitImageOption

SpecTwin == InitTwin /\ [][NextTwin]_vars

---------------------------------------------------------------------------
(* The pure functions, each applied once to arguments drawn at the start *)

InitPure(calls) ==
    /\ printer = Printer_new
    /\ driver = "console"
    /\ driver_log = <<>>
    /\ last = [op |-> "new", arg |-> <<>>, ok |-> TRUE, err |-> "",
               before |-> Printer_new]
    /\ twin = NoTwin
    /\ twin_log = <<>>
    /\ call \in calls
    /\ ret = <<>>
    /\ statics = StaticsAtStart
    /\ threads = ThreadsAtStart

Return(fn, result) ==
    /\ call.fn = fn
    /\ ret = <<>>
    /\ ret' = <<result>>
    /\ UNCHANGED <<printer, driver, driver_log, last, twin, twin_log, call,
                   statics, threads>>

(* The parameter-length codec and the 2D data frames *)
Paddings == {0, 3, 4}

Repeat(b, n) == [i \in 1..n |-> b]

(* The largest length two bytes carry *)
U16_MAX == 256 * U8_MAX + U8_MAX

(* Payload lengths of the data frames: the short ones and those around the *)
(* largest length a frame can carry                                        *)
FrameLens == (0..2) \cup ((U16_MAX - 5)..(U16_MAX + 1))

FrameFns == {"qrcode_data", "pdf417_data", "maxi_code_data",
             "data_matrix_data", "aztec_data", "gs1_databar_2d_data"}

GetParametersNumber2 ==
    Return("get_parameters_number_2",
           get_parameters_number_2(call.len, call.padding))

QrcodeData == Return("qrcode_data", Protocol_qrcode_data(Repeat(49, call.len)))

Pdf417Data == Return("pdf417_data", Protocol_pdf417_data(Repeat(49, call.len)))

MaxiCodeData ==
    Return("maxi_code_data", Protocol_maxi_code_data(Repeat(49, call.len)))

DataMatrixData ==
    Return("data_matrix_data", Protocol_data_matrix_data(Repeat(49, call.len)))

AztecData == Return("aztec_data", Protocol_aztec_data(Repeat(49, call.len)))

Gs1Databar2dData ==
    Return("gs1_databar_2d_data",
           Protocol_gs1_databar_2d_data(Repeat(49, call.len), 72))

InitParams ==
    \/ InitPure({[fn |-> "get_parameters_number_2", len |-> n,
                  padding |-> p] : n \in 0..MaxDataLen, p \in Paddings})
    \/ InitPure({[fn |-> f, len |-> n,
                  padding |-> IF f = "gs1_databar_2d_data" THEN 4 ELSE 3] :
                    f \in FrameFns, n \in FrameLens})

NextParams ==
    \/ GetParametersNumber2 \/ QrcodeData \/ Pdf417Data \/ MaxiCodeData
    \/ DataMatrixData \/ AztecData \/ Gs1Databar2dData

SpecParams == InitParams /\ [][NextParams]_vars

(* The text encoder *)
TextPageCodes == {None, "Hiragana", "Katakana", "PC850"} \cup PageCodesWithTable

MaxLengths == {NoLimit} \cup {Some(m) : m \in 0..MaxMaxLength}

Text ==
    /\ call.fn = "text"
    /\ ret = <<>>
    /\ ~deref_waits(text_tables(call.page_code))
    /\ ret' = <<Protocol_text(call.text, call.page_code, call.max_length)>>
    /\ statics' = deref_all(text_tables(call.page_code))
    /\ UNCHANGED <<printer, driver, driver_log, last, twin, twin_log, call,
                   threads>>

InitText ==
    InitPure({[fn |-> "text", text |-> t, page_code |-> p, max_length |-> m] :
                 t \in Texts, p \in TextPageCodes, m \in MaxLengths})

NextText == Text

SpecText == InitText /\ [][NextText]_vars


---------------------------------------------------------------------------
(* The pure builders and validators of domain/, each applied to one call *)

U8 == 0..U8_MAX

(* Barcode payloads: every one- and two-fold ASCII character, and strings  *)
(* of every length up to the bound made of a first, a middle and a last    *)
(* character: digits, letters of either alphabet, a space, a colon, a      *)
(* star, e-acute (two bytes) and an Arabic-Indic digit                     *)
BarcodeAlphabet == {48, 49, 57, 65, 69, 97, 32, 58, 42, 233, 1635}

Fill(n, a, m, z) ==
    [i \in 1..n |-> IF i = 1 THEN a ELSE IF i = n THEN z ELSE m]

BarcodeSystemSet ==
    {"UPCA", "UPCE", "EAN13", "EAN8", "CODE39", "ITF", "CODABAR"}

BarcodeOptions ==
    {[BarcodeOption_default EXCEPT !.width = w, !.height = h] :
        w \in {"XS", "S", "M", "L", "XL"}, h \in {"XS", "S", "M", "L", "XL"}}
    \cup {[BarcodeOption_default EXCEPT !.font = f, !.position = p] :
        f \in {"A", "B", "C", "D", "E"},
        p \in {"None", "Above", "Below", "Both"}}

TextSize == Return("text_size", Protocol_text_size(call.width, call.height))

BarcodeValidate ==
    Return("Barcode::validate", Barcode_validate(call.system, call.data))

BarcodeNew ==
    Return("Barcode::new", Barcode_new(call.system, call.data, call.option))

BarcodeWidth == Return("barcode_width", Protocol_barcode_width(call.width))

BarcodeHeight == Return("barcode_height", Protocol_barcode_height(call.height))

Barcode ==
    Return("barcode", Protocol_barcode(call.data, call.system, call.option))

InitCodes ==
    \/ InitPure({[fn |-> "text_size", width |-> w, height |-> h] :
                    w \in U8, h \in U8})
    \/ InitPure({[fn |-> f, system |-> s, data |-> d,
                  option |-> BarcodeOption_default] :
                    f \in {"Barcode::validate", "Barcode::new"},
                    s \in BarcodeSystemSet,
                    d \in {Fill(n, a, m, b) :
                              n \in 0..MaxBarcodeLen, a \in BarcodeAlphabet,
                              m \in {49, 65}, b \in BarcodeAlphabet}
                          \cup {Fill(n, c, c, c) : n \in 1..2, c \in 0..127}})
    \/ InitPure({[fn |-> "barcode_width", width |-> w] : w \in U8})
    \/ InitPure({[fn |-> "barcode_height", height |-> h] : h \in U8})
    \/ InitPure({[fn |-> "barcode", data |-> d, system |-> s, option |-> o] :
                    d \in {<<>>, EAN13_SAMPLE, <<48, 233>>},
                    s \in BarcodeSystemSet, o \in BarcodeOptions})

NextCodes ==
    \/ TextSize \/ BarcodeValidate \/ BarcodeNew
    \/ BarcodeWidth \/ BarcodeHeight \/ Barcode

SpecCodes == InitCodes /\ [][NextCodes]_vars

---------------------------------------------------------------------------
(* The 2D option records, their conversions and their builders *)

DataMatrixTypes ==
    {<<"Square", d>> : d \in U8}
    \cup {<<"Rectangle", d1, d2>> : d1 \in U8, d2 \in U8}

AztecModes == {<<v, n>> : v \in {"FullRange", "Compact"}, n \in U8}

Pdf417CorrectionLevels ==
    {<<"Level", k>> : k \in 0..8} \cup {<<"Ratio", v>> : v \in U8}

(* The options that DataMatrixOption::new, AztecOption::new and            *)
(* Pdf417Option::new return for arguments on and around their limits       *)
DataMatrixOptions ==
    {o.val : o \in {r \in {DataMatrixOption_new(t, s) :
                              t \in {<<"Square", d>> : d \in U8}
                                    \cup {<<"Rectangle", d1, d2>> :
                                             d1 \in {0, 8, 12, 16, 255},
                                             d2 \in {0, 18, 26, 32, 36, 48}},
                              s \in {1, 2, 16, 17}} : r.ok}}

AztecOptions ==
    {o.val : o \in {r \in {AztecOption_new(m, s, c) :
                              m \in AztecModes, s \in {1, 2, 16, 17},
                              c \in {4, 5, 95, 96}} : r.ok}}

Pdf417Options ==
    {o.val : o \in {r \in {Pdf417Option_new(c, w, 2, 3, t, l) :
                              c \in {0, 30, 31}, w \in {0, 2, 3, 90, 91},
                              t \in {"Standard", "Truncated"},
                              l \in Pdf417CorrectionLevels} : r.ok}}

DataMatrixTypeTryFrom ==
    Return("DataMatrixType::try_from", DataMatrixType_try_from(call.value))

AztecModeTryFrom ==
    Return("AztecMode::try_from", AztecMode_try_from(call.value))

Pdf417CorrectionLevelTryFrom ==
    Return("Pdf417CorrectionLevel::try_from",
           Pdf417CorrectionLevel_try_from(call.value))

DataMatrixOptionNew ==
    Return("DataMatrixOption::new",
           DataMatrixOption_new(call.code_type, call.size))

AztecOptionNew ==
    Return("AztecOption::new",
           AztecOption_new(call.mode, call.size, call.correction_level))

Pdf417OptionNew ==
    Return("Pdf417Option::new",
           Pdf417Option_new(call.columns, call.rows, call.width,
                            call.row_height, call.code_type,
                            call.correction_level))

Pdf417 == Return("pdf417", Protocol_pdf417(call.data, call.option))

DataMatrix ==
    Return("data_matrix", Protocol_data_matrix(call.data, call.option))

Aztec == Return("aztec", Protocol_aztec(call.data, call.option))

Init2D ==
    \/ InitPure({[fn |-> "DataMatrixType::try_from", value |-> v] :
                    v \in DataMatrixTypes})
    \/ InitPure({[fn |-> "AztecMode::try_from", value |-> v] :
                    v \in AztecModes})
    \/ InitPure({[fn |-> "Pdf417CorrectionLevel::try_from", value |-> v] :
                    v \in Pdf417CorrectionLevels})
    \/ InitPure({[fn |-> "DataMatrixOption::new", code_type |-> t,
                  size |-> s] :
                    t \in {<<"Square", 0>>, <<"Square", 2>>,
                           <<"Rectangle", 8, 0>>, <<"Rectangle", 0, 0>>},
                    s \in U8})
    \/ InitPure({[fn |-> "AztecOption::new", mode |-> m, size |-> s,
                  correction_level |-> c] :
                    m \in {<<"FullRange", 0>>, <<"FullRange", 33>>,
                           <<"Compact", 5>>},
                    s \in {0, 1, 2, 3, 16, 17, 255}, c \in U8})
    \/ InitPure({[fn |-> "Pdf417Option::new", columns |-> c, rows |-> w,
                  width |-> 2, row_height |-> 3, code_type |-> "Standard",
                  correction_level |-> l] :
                    c \in {0, 30, 31, 255}, w \in U8,
                    l \in {<<"Level", 0>>, <<"Ratio", 0>>, <<"Ratio", 41>>}})
    \/ InitPure({[fn |-> "data_matrix", data |-> d, option |-> o] :
                    d \in {<<>>, DATA_SAMPLE}, o \in DataMatrixOptions})
    \/ InitPure({[fn |-> "aztec", data |-> d, option |-> o] :
                    d \in {<<>>, DATA_SAMPLE}, o \in AztecOptions})
    \/ InitPure({[fn |-> "pdf417", data |-> d, option |-> o] :
                    d \in {<<>>, DATA_SAMPLE}, o \in Pdf417Options})

(* Payloads of the 2D symbols: empty, short, 13 digits, and one long       *)
(* enough for a length above 255                                           *)
Payloads ==
    {<<>>, DATA_SAMPLE, EAN13_SAMPLE, [i \in 1..300 |-> 49]}

Qrcode == Return("qrcode", Protocol_qrcode(call.data, call.option))

Gs1Databar2d ==
    Return("gs1_databar_2d", Protocol_gs1_databar_2d(call.data, call.option))

MaxiCode == Return("maxi_code", Protocol_maxi_code(call.data, call.mode))

Init2DMore ==
    \/ InitPure({[fn |-> "qrcode", data |-> d, option |-> o] :
                    d \in Payloads,
                    o \in [model : {"Model1", "Model2", "Micro"},
                           size : {0, 4, 15, 16, 255},
                           correction_level : {"L", "M", "Q", "H"}]})
    \/ InitPure({[fn |-> "gs1_databar_2d", data |-> d, option |-> o] :
                    d \in Payloads,
                    o \in [width : {"S", "M", "L"},
                           code_type : {"Stacked", "StackedOmnidirectional",
                                        "ExpandedStacked"}]})
    \/ InitPure({[fn |-> "maxi_code", data |-> d, mode |-> m] :
                    d \in Payloads, m \in 2..6})

Next2D ==
    \/ DataMatrixTypeTryFrom \/ AztecModeTryFrom
    \/ Pdf417CorrectionLevelTryFrom
    \/ DataMatrixOptionNew \/ AztecOptionNew \/ Pdf417OptionNew
    \/ Pdf417 \/ DataMatrix \/ Aztec
    \/ Qrcode \/ Gs1Databar2d \/ MaxiCode

Spec2D == (Init2D \/ Init2DMore) /\ [][Next2D]_vars

---------------------------------------------------------------------------
(* The status decoder *)

RealTimeStatusRequestSet ==
    {"Printer", "OfflineCause", "ErrorCause", "RollPaperSensor", "InkA",
     "InkB", "Peeler", "Interface", "DMD"}

Parse ==
    Return("RealTimeStatusResponse::parse",
           RealTimeStatusResponse_parse(call.request, call.response))

InitStatus ==
    InitPure({[fn |-> "RealTimeStatusResponse::parse", request |-> q,
               response |-> b] : q \in RealTimeStatusRequestSet, b \in U8})

NextStatus == Parse

SpecStatus == InitStatus /\ [][NextStatus]_vars

(* The rasterizer: decoded images small enough to enumerate, with gray     *)
(* values on both sides of the threshold, and the whole range of a         *)
(* dimension for the 2-byte fields of the frame                            *)
GraySamples == {{0, 255}, {128, 129}}

ImageShapes ==
    {d \in (0..MaxImageWidth) \X (0..MaxImageHeight) : d[1] * d[2] <= MaxPixels}

ImagesOfShape(w, h) ==
    UNION {{[ok |-> TRUE, width |-> w, height |-> h, gray |-> p] :
               p \in [1..h -> [1..w -> g]]} : g \in GraySamples}

RasterImages == UNION {ImagesOfShape(d[1], d[2]) : d \in ImageShapes}

Dimensions == 0..MaxDimension

RasterData == Return("BitImage::raster_data", raster_data(call.image))

WithBytesU8 ==
    Return("BitImage::with_bytes_u8",
           with_bytes_u8(call.image, call.overflow_checks))

HeightU8 ==
    Return("BitImage::height_u8", height_u8(call.image, call.overflow_checks))

BuildBitImage ==
    Return("Protocol::build_bit_image",
           build_bit_image(call.image, call.size, call.overflow_checks))

InitImage ==
    \/ InitPure({[fn |-> "BitImage::raster_data", image |-> i] :
                    i \in RasterImages})
    \/ InitPure({[fn |-> "BitImage::with_bytes_u8", image |-> [width |-> w],
                  overflow_checks |-> c] : w \in Dimensions, c \in BOOLEAN})
    \/ InitPure({[fn |-> "BitImage::height_u8", image |-> [height |-> h],
                  overflow_checks |-> c] : h \in Dimensions, c \in BOOLEAN})
    \/ InitPure({[fn |-> "Protocol::build_bit_image", image |-> i,
                  size |-> s, overflow_checks |-> c] :
                    i \in RasterImages, s \in {"Normal", "DoubleHeight"},
                    c \in BOOLEAN})

NextImage == RasterData \/ WithBytesU8 \/ HeightU8 \/ BuildBitImage

SpecImage == InitImage /\ [][NextImage]_vars

(* Threads that reach for page-code tables at the same time, each for any *)
(* of three of the nine in any order: the statics are independent of one  *)
(* another, and three let threads meet on one table and on different ones *)
RacedTables == {"PC437", "PC858", "WPC1252"}

InitTables == InitPure({NoCall})

NextTables ==
    \E self \in Threads :
        \/ \E t \in RacedTables : GetTable(self, t)
        \/ Deref(self)
        \/ Initialize(self)
        \/ Release(self)

SpecTables == InitTables /\ [][NextTables]_vars

(* The Line component: lines with each override present and absent, a size *)
(* text_size rejects, widths and offsets at and beyond the line's room, a  *)
(* two-character and a two-byte pattern                                    *)
Lines ==
    [font : {None, "B"},
     size : {<<>>, <<<<2, 2>>>>, <<<<0, 1>>>>},
     justify : {None, "LEFT", "CENTER"},
     style : {<<"Simple">>, <<"Dashed">>, <<"Custom", <<233>>>>},
     width : {<<>>, <<0>>, <<16>>},
     offset : {0, 4, 43}]

(* Every offset, with widths and characters per line on both sides of it *)
SimpleLines ==
    [font : {None}, size : {<<>>}, justify : {None}, style : {<<"Simple">>},
     width : {<<>>, <<0>>, <<255>>}, offset : U8]

CharactersPerLine == {0, DEFAULT_CHARACTERS_PER_LINE, 255}

(* Text widths: the ends of 1..=8 and the values next to them *)
TextWidths == {0, 1, 2, 3, 8, 9}

StyleStates ==
    {PrinterStyleState_default,
     [PrinterStyleState_default EXCEPT !.font = "C", !.text_size = <<2, 1>>,
                                       !.justify_mode = "RIGHT"]}

LinePrinters ==
    {[Printer_new EXCEPT !.style_state = s] : s \in StyleStates}

Render ==
    Return("Line::render",
           Line_render(call.line, call.options, call.style_state,
                       call.overflow_checks))

Draw ==
    Return("Line::draw",
           Line_draw(call.line, call.chars_per_line, call.text_size,
                     call.justify_mode, <<>>, call.overflow_checks))

DrawLine ==
    Return("Printer::draw_line",
           Printer_draw_line(call.printer, call.line, call.overflow_checks))

InitLine ==
    \/ InitPure({[fn |-> "Line::render", line |-> l,
                  options |-> [PrinterOptions_default EXCEPT
                                  !.characters_per_line = n],
                  style_state |-> s, overflow_checks |-> c] :
                    l \in Lines, n \in {DEFAULT_CHARACTERS_PER_LINE},
                    s \in StyleStates, c \in BOOLEAN})
    \/ InitPure({[fn |-> "Line::draw", line |-> l, chars_per_line |-> n,
                  text_size |-> t, justify_mode |-> j,
                  overflow_checks |-> c] :
                    l \in SimpleLines, n \in CharactersPerLine,
                    t \in TextWidths,
                    j \in {"LEFT", "RIGHT"}, c \in BOOLEAN})
    \/ InitPure({[fn |-> "Printer::draw_line", printer |-> p, line |-> l,
                  overflow_checks |-> c] :
                    p \in LinePrinters, l \in Lines, c \in BOOLEAN})

NextLine == Render \/ Draw \/ DrawLine

SpecLine == InitLine /\ [][NextLine]_vars
---------------------------------------------------------------------------
(* Properties of the Printer.  last records the latest Printer call: its   *)
(* name, argument, result and the Printer as it was before the call;       *)
(* driver_log holds the Driver calls that call issued.                     *)

Setters == {"bold", "underline", "double_strike", "font", "flip", "justify",
            "reverse", "size", "reset_size"}

Writes(log) == SelectSeq(log, LAMBDA e : e.op = "write")

Flushes(log) == SelectSeq(log, LAMBDA e : e.op = "flush")

InstructionBytes(instructions) ==
    [k \in 1..Len(instructions) |-> flatten_commands(instructions[k])]

(* C1: a Printer builder call that returns an error appends no instruction *)
(* to the buffer and leaves the style state unchanged: the buffer after a  *)
(* failing builder call equals the buffer before it.                       *)
C1_FailedBuilderLeavesPrinter ==
    (~last.ok /\ last.op \notin FlushOps) =>
        /\ printer.instructions = last.before.instructions
        /\ printer.style_state = last.before.style_state

(* C2: a Printer call other than print(), print_cut() and send_status()    *)
(* issues no driver.write and no driver.flush; as this holds of every call *)
(* of a sequence, a sequence without flush point sends the Driver nothing. *)
C2_NoDriverCallOutsideFlush ==
    last.op \notin FlushOps => driver_log = <<>>

C2_Witness ==
    /\ last.op = "bit_image_option"
    /\ last.ok
    /\ Len(printer.instructions) >= 2
    /\ printer.instructions[1].command = <<Protocol_cancel>>
    /\ Len(printer.instructions[2].command[1]) > 8

(* C3 as stated: a successful print() issues a single driver.write, whose  *)
(* payload is all the buffered bytes, however many instructions are        *)
(* buffered (taken here for a buffer that holds at least one).             *)
C3_PrintOneBatchedWrite ==
    (last.op = "print" /\ last.ok /\ last.before.instructions # <<>>) =>
        /\ Len(Writes(driver_log)) = 1
        /\ Writes(driver_log)[1].data =
               Concat(InstructionBytes(last.before.instructions))

(* C3, amended: a successful print() issues one driver.write per buffered  *)
(* instruction, in buffer order, each carrying the bytes of that           *)
(* instruction and all succeeding, followed by one driver.flush; so the    *)
(* writes together carry all the buffered bytes, in order.                 *)
C3_PrintWritesEachInstruction ==
    (last.op = "print" /\ last.ok) =>
        driver_log =
            [k \in 1..Len(last.before.instructions) |->
                WriteCall(flatten_commands(last.before.instructions[k]), TRUE)]
            \o <<FlushCall(TRUE)>>

C3_Witness ==
    /\ last.op = "print"
    /\ last.ok
    /\ Len(last.before.instructions) >= 2
    /\ Len(Writes(driver_log)) >= 2

(* C4: if a driver.write fails during print(), print() returns that error  *)
(* (a transport error), no instruction after the failing one is written,   *)
(* and driver.flush is not called in that print().                         *)
C4_WriteFailureAbortsPrint ==
    (last.op = "print" /\ \E k \in 1..Len(driver_log) :
                              driver_log[k].op = "write" /\ ~driver_log[k].ok) =>
        /\ ~last.ok
        /\ last.err = "Io"
        /\ ~driver_log[Len(driver_log)].ok
        /\ \A k \in 1..(Len(driver_log) - 1) : driver_log[k].ok
        /\ Flushes(driver_log) = <<>>
        /\ Writes(driver_log) =
               [k \in 1..Len(driver_log) |->
                   WriteCall(flatten_commands(last.before.instructions[k]),
                             k < Len(driver_log))]

C4_Witness ==
    /\ last.op = "print"
    /\ ~last.ok
    /\ Len(last.before.instructions) >= 2
    /\ Len(driver_log) = 1
    /\ ~driver_log[1].ok

(* C5: after print(), print_cut() or send_status() returns Ok, the         *)
(* instruction buffer is empty and the style state is                      *)
(* PrinterStyleState::default(), whatever calls preceded it.               *)
C5_FlushClearsBufferAndStyle ==
    (last.op \in FlushOps /\ last.ok) =>
        /\ printer.instructions = <<>>
        /\ printer.style_state = PrinterStyleState_default

C5_Witness ==
    /\ last.op \in FlushOps
    /\ last.ok
    /\ Len(last.before.instructions) >= 2
    /\ last.before.style_state.bold
    /\ last.before.style_state.text_size # <<1, 1>>

(* C6: every call moves the style state as the setters' contract says: a   *)
(* successful setter puts its argument in its own field and changes no     *)
(* other field, a successful print(), print_cut() or send_status() and     *)
(* reset_style_state() put every field at its default, and any other call, *)
(* a failed one included, changes no field.  With the default style of     *)
(* Printer::new this is, by induction over the calls, that each field      *)
(* holds the argument of its setter's latest successful call, or its       *)
(* default if there was none since the last successful flush or reset.     *)
C6_StyleFollowsSetters ==
    LET b == last.before.style_state
        s == printer.style_state
    IN  IF last.op = "reset_style_state" \/ (last.op \in FlushOps /\ last.ok)
        THEN s = PrinterStyleState_default
        ELSE IF ~last.ok \/ last.op \notin Setters THEN s = b
        ELSE CASE last.op = "bold" -> s = [b EXCEPT !.bold = last.arg]
               [] last.op = "underline" ->
                      s = [b EXCEPT !.underline_mode = last.arg]
               [] last.op = "double_strike" ->
                      s = [b EXCEPT !.double_strike = last.arg]
               [] last.op = "font" -> s = [b EXCEPT !.font = last.arg]
               [] last.op = "flip" -> s = [b EXCEPT !.flip = last.arg]
               [] last.op = "justify" ->
                      s = [b EXCEPT !.justify_mode = last.arg]
               [] last.op = "reverse" -> s = [b EXCEPT !.reverse = last.arg]
               [] last.op = "size" -> s = [b EXCEPT !.text_size = last.arg]
               [] last.op = "reset_size" ->
                      s = [b EXCEPT !.text_size = <<1, 1>>]

C6_Witness ==
    /\ last.op = "font"
    /\ last.ok
    /\ printer.style_state.font = "B"
    /\ printer.style_state.bold
    /\ last.before.style_state.font = "A"

(* C7: the debug mode never affects the bytes sent: two Printers given the *)
(* same calls over Drivers that answer alike, differing only in the debug  *)
(* modes set, hold the same bytes in their buffers and make the same       *)
(* Driver calls with the same bytes.                                       *)
C7_DebugModeKeepsBytes ==
    twin # NoTwin =>
        /\ driver_log = twin_log
        /\ InstructionBytes(printer.instructions)
               = InstructionBytes(twin[1].instructions)

C7_Witness ==
    /\ twin # NoTwin
    /\ last.op = "print"
    /\ last.ok
    /\ Len(Writes(driver_log)) >= 2
    /\ \E k \in 1..Len(last.before.instructions) :
           last.before.instructions[k].debug_mode
               # twin[1].options.debug_mode
    /\ \E j, k \in 1..Len(last.before.instructions) :
           last.before.instructions[j].debug_mode
               # last.before.instructions[k].debug_mode

---------------------------------------------------------------------------
(* Properties of the pure functions.  call holds the function applied and  *)
(* its arguments, ret its result once it has returned.                     *)

Returned(fn) == call.fn = fn /\ ret # <<>>

(* C8: for every payload byte length and padding whose sum n is within     *)
(* 0..=65535, get_parameters_number_2 returns (pL, pH) with                *)
(* pL + 256 * pH = n and both within 0..=255; for every n above 65535 it   *)
(* returns an error.                                                       *)
C8_ParametersRoundTrip ==
    Returned("get_parameters_number_2") =>
        LET n == call.len + call.padding
            r == ret[1]
        IN  IF n <= U16_MAX
            THEN /\ r.ok
                 /\ r.val[1] \in 0..255
                 /\ r.val[2] \in 0..255
                 /\ r.val[1] + 256 * r.val[2] = n
            ELSE ~r.ok

C8_Witness ==
    /\ Returned("get_parameters_number_2")
    /\ call.padding = 4
    /\ call.len + call.padding = U16_MAX
    /\ ret[1].ok
    /\ ret[1].val = <<255, 255>>

(* C9: an oversized frame is reported as an Input error: when the payload  *)
(* length plus the padding exceeds 65535, get_parameters_number_2 and      *)
(* every 2D data-frame builder return PrinterError::Input.                 *)
C9_OversizedFrameIsInputError ==
    (call.fn \in FrameFns \cup {"get_parameters_number_2"} /\ ret # <<>>
        /\ call.len + call.padding > U16_MAX) =>
        (~ret[1].ok /\ ret[1].err = "Input")

(* C10: for every text, every page-code choice (none, or a page code with  *)
(* a table) and every max length m, the command text() returns has at most *)
(* m bytes.                                                                *)
C10_TextWithinMaxLength ==
    (Returned("text") /\ call.max_length # NoLimit /\ ret[1].ok) =>
        Len(ret[1].val) <= call.max_length[1]


---------------------------------------------------------------------------
(* The text encoder with a page code *)

(* The whole encoding of one character under a table: its table byte, or   *)
(* the UTF-8 bytes of a character the table lacks                          *)
EncodingOf(c, table) == IF c \in DOMAIN table THEN <<table[c]>> ELSE Utf8(c)

PrefixEncoding(text, table, k) ==
    Concat([i \in 1..k |-> EncodingOf(text[i], table)])

(* C11: with a page code that has a table, text() returns the              *)
(* concatenation, in input order, of the whole encodings of a prefix of    *)
(* the text's characters: one table byte per character the table maps,     *)
(* the encoder's bytes for any other character, none of them cut.          *)
C11_TextIsPrefixOfWholeEncodings ==
    (Returned("text") /\ call.page_code \in PageCodesWithTable) =>
        /\ ret[1].ok
        /\ \E k \in 0..Len(call.text) :
               ret[1].val =
                   PrefixEncoding(call.text, get_table(call.page_code), k)

(* A text cut by max_length after a table character and a character of     *)
(* several bytes that the table lacks                                      *)
C11_Witness ==
    /\ Returned("text") /\ call.page_code \in PageCodesWithTable
    /\ call.max_length # NoLimit
    /\ ret[1].ok
    /\ LET table == get_table(call.page_code) IN
       \E k \in 1..(Len(call.text) - 1) :
           /\ ret[1].val = PrefixEncoding(call.text, table, k)
           /\ ret[1].val # PrefixEncoding(call.text, table, k + 1)
           /\ \E i \in 1..k : call.text[i] \in DOMAIN table
           /\ \E i \in 1..k : /\ call.text[i] \notin DOMAIN table
                              /\ Len(Utf8(call.text[i])) > 1

(* C12: text() with a page code that has no table returns an error and no  *)
(* bytes, whatever the text (the empty one included) and the max length.   *)
C12_NoTableIsError ==
    (Returned("text") /\ call.page_code # None
                      /\ call.page_code \notin PageCodesWithTable) =>
        ~ret[1].ok /\ ret[1].val = <<>>

C12_Witness ==
    /\ Returned("text") /\ call.page_code = "Katakana"
    /\ call.text = <<>> /\ call.max_length = Some(0)
    /\ ~ret[1].ok /\ ret[1].err = "Input"

---------------------------------------------------------------------------
(* Text size *)

(* C13: text_size(w, h) returns [0x1D, 0x21, ((w-1)<<4) | (h-1)] if and    *)
(* only if both w and h are within 1..=8; for every other pair of bytes it *)
(* returns an Input error and no command.                                  *)
C13_TextSizePacked ==
    Returned("text_size") =>
        IF call.width \in 1..8 /\ call.height \in 1..8
        THEN /\ ret[1].ok
             /\ ret[1].val =
                    <<29, 33, 16 * (call.width - 1) + (call.height - 1)>>
        ELSE ~ret[1].ok /\ ret[1].err = "Input" /\ ret[1].val = <<>>

C13_Witness ==
    /\ Returned("text_size") /\ call.width = 8 /\ call.height = 8
    /\ ret[1].ok /\ ret[1].val = <<29, 33, 119>>

---------------------------------------------------------------------------
(* Barcodes *)

AllDigits(data) == \A i \in 1..Len(data) : data[i] \in 48..57

AllIn(data, alphabet) == \A i \in 1..Len(data) : data[i] \in alphabet

StartsWithZero(data) == data # <<>> /\ data[1] = 48

(* C14 as stated: UPC-E validation accepts a payload if and only if it is  *)
(* digit-only with a length in {6, 7, 8, 11, 12}, or its first character   *)
(* is '0'.                                                                 *)
C14_UpceListedLengths ==
    (Returned("Barcode::validate") /\ call.system = "UPCE") =>
        (ret[1].ok <=>
            \/ AllDigits(call.data) /\ Len(call.data) \in {6, 7, 8, 11, 12}
            \/ StartsWithZero(call.data))

(* C14, amended: UPC-E validation accepts a payload if and only if it is   *)
(* digit-only with a length of exactly 6, or its first character is '0'.   *)
C14_UpceSixDigitsOrZero ==
    (Returned("Barcode::validate") /\ call.system = "UPCE") =>
        (ret[1].ok <=>
            \/ AllDigits(call.data) /\ Len(call.data) = 6
            \/ StartsWithZero(call.data))

(* Seven digits that do not start with '0' are refused *)
C14_Witness ==
    /\ Returned("Barcode::validate") /\ call.system = "UPCE"
    /\ AllDigits(call.data) /\ Len(call.data) = 7
    /\ ~StartsWithZero(call.data)
    /\ ~ret[1].ok /\ ret[1].err = "Input"

(* The predicate of each of the six other symbologies *)
Accepts(system, data) ==
    CASE system = "UPCA" -> AllDigits(data) /\ Len(data) \in {11, 12}
      [] system = "EAN8" -> AllDigits(data) /\ Len(data) \in {7, 8}
      [] system = "EAN13" -> AllDigits(data) /\ Len(data) \in {12, 13}
      [] system = "ITF" -> Len(data) >= 2 /\ AllDigits(data)
      [] system = "CODE39" ->
             Len(data) >= 1 /\ AllIn(data, CODE39_VALID_CHARS)
      [] system = "CODABAR" ->
             Len(data) >= 2 /\ AllIn(data, CODABAR_VALID_CHARS)

(* C15: for UPC-A, EAN-8, EAN-13, ITF, CODE39 and CODABAR, validate        *)
(* returns Ok if and only if the payload satisfies the symbology's         *)
(* predicate (11 or 12 digits; 7 or 8 digits; 12 or 13 digits; at least 2  *)
(* characters, all digits; at least 1 character, all of the 44-symbol      *)
(* alphabet; at least 2 characters, all of the 24-symbol alphabet), and    *)
(* Barcode::new fails exactly when validate does.                          *)
C15_ValidatorsFollowPredicates ==
    /\ Cardinality(CODE39_VALID_CHARS) = 44
    /\ Cardinality(CODABAR_VALID_CHARS) = 24
    /\ (/\ Returned("Barcode::validate") \/ Returned("Barcode::new")
        /\ call.system # "UPCE") =>
           /\ ret[1].ok <=> Accepts(call.system, call.data)
           /\ ret[1].ok <=> Barcode_validate(call.system, call.data).ok
           /\ ~ret[1].ok => ret[1].err = "Input" /\ ret[1].val = <<>>

C15_Witness ==
    /\ Returned("Barcode::new") /\ call.system = "CODABAR"
    /\ Len(call.data) = 2 /\ call.data[1] = 58
    /\ ret[1].ok /\ ret[1].val.data = call.data

(* C16: barcode() returns exactly five commands in this order: module      *)
(* width, bar height, HRI font, HRI position, print; the print command is  *)
(* [0x1D, 0x6B, symbology ordinal, payload bytes, 0x00] and comes last;    *)
(* a rejected width or height leaves no command list.                      *)
C16_BarcodeFiveCommands ==
    /\ Returned("barcode") =>
           IF ret[1].ok
           THEN /\ Len(ret[1].val) = 5
                /\ SubSeq(ret[1].val[1], 1, 2) = <<29, 119>>
                /\ SubSeq(ret[1].val[2], 1, 2) = <<29, 104>>
                /\ SubSeq(ret[1].val[3], 1, 2) = <<29, 102>>
                /\ SubSeq(ret[1].val[4], 1, 2) = <<29, 72>>
                /\ ret[1].val[5] =
                       <<29, 107, BarcodeSystem_u8(call.system)>>
                           \o Utf8Text(call.data) \o <<0>>
                /\ \A i \in 1..4 : Len(ret[1].val[i]) = 3
           ELSE ret[1].val = <<>>
    /\ (Returned("barcode_width") /\ ~ret[1].ok) => ret[1].val = <<>>
    /\ (Returned("barcode_height") /\ ~ret[1].ok) => ret[1].val = <<>>

(* barcode_print(EAN13, "4006381333931") as the fifth command *)
C16_Witness ==
    /\ Returned("barcode") /\ call.system = "EAN13"
    /\ call.data = EAN13_SAMPLE /\ call.option.width = "XL"
    /\ ret[1].ok /\ Len(ret[1].val) = 5
    /\ ret[1].val[1] = <<29, 119, 5>>
    /\ ret[1].val[5] = <<29, 107, 2>> \o EAN13_SAMPLE \o <<0>>

---------------------------------------------------------------------------
(* The 2D option records *)

LegalSquareSides ==
    {0, 10, 12, 14, 16, 18, 20, 22, 24, 26, 32, 36, 40, 44, 48, 52, 64, 72,
     80, 88, 96, 104, 120, 132, 144}

LegalRectangles ==
    {<<8, 0>>, <<8, 18>>, <<8, 32>>, <<12, 0>>, <<12, 26>>, <<12, 36>>,
     <<16, 0>>, <<16, 36>>, <<16, 48>>}

LegalDataMatrixType(t) ==
    IF t[1] = "Square" THEN t[2] \in LegalSquareSides
    ELSE <<t[2], t[3]>> \in LegalRectangles

(* C17: Square(d) resolves to (0, d, d) if and only if d is one of the 25  *)
(* legal sides, Rectangle(d1, d2) resolves to (1, d1, d2) if and only if   *)
(* (d1, d2) is one of the 9 legal pairs; every other value of bytes        *)
(* yields an error.                                                        *)
C17_DataMatrixTypeResolution ==
    /\ Cardinality(LegalSquareSides) = 25
    /\ Cardinality(LegalRectangles) = 9
    /\ Returned("DataMatrixType::try_from") =>
           IF LegalDataMatrixType(call.value)
           THEN /\ ret[1].ok
                /\ ret[1].val =
                       IF call.value[1] = "Square"
                       THEN <<0, call.value[2], call.value[2]>>
                       ELSE <<1, call.value[2], call.value[3]>>
           ELSE ~ret[1].ok /\ ret[1].val = <<>>

C17_Witness ==
    /\ Returned("DataMatrixType::try_from")
    /\ call.value = <<"Rectangle", 16, 48>>
    /\ ret[1].ok /\ ret[1].val = <<1, 16, 48>>

LegalAztecMode(m) ==
    IF m[1] = "FullRange" THEN m[2] = 0 \/ m[2] \in 4..32
    ELSE m[2] \in 0..4

(* C18: FullRange(n) resolves to (0, n) if and only if n = 0 or            *)
(* 4 <= n <= 32, Compact(n) resolves to (1, n) if and only if              *)
(* 0 <= n <= 4; every other byte n yields an error, and aztec() then       *)
(* returns no commands.                                                    *)
C18_AztecModeResolution ==
    /\ Returned("AztecMode::try_from") =>
           IF LegalAztecMode(call.value)
           THEN /\ ret[1].ok
                /\ ret[1].val =
                       <<IF call.value[1] = "FullRange" THEN 0 ELSE 1,
                         call.value[2]>>
           ELSE ~ret[1].ok /\ ret[1].val = <<>>
    /\ (Returned("aztec") /\ ~LegalAztecMode(call.option.mode)) =>
           ~ret[1].ok /\ ret[1].val = <<>>

(* aztec() on an option whose mode is FullRange(33) *)
C18_Witness ==
    /\ Returned("aztec") /\ call.option.mode = <<"FullRange", 33>>
    /\ call.data = DATA_SAMPLE
    /\ ~ret[1].ok /\ ret[1].err = "Input"

(* The builder calls of the model are made on options that the             *)
(* constructors returned *)
BuiltOnConstructedOption ==
    CASE call.fn = "pdf417" ->
             Pdf417Option_new(call.option.columns, call.option.rows,
                              call.option.width, call.option.row_height,
                              call.option.code_type,
                              call.option.correction_level)
                 = Ok(call.option)
      [] call.fn = "data_matrix" ->
             DataMatrixOption_new(call.option.code_type, call.option.size)
                 = Ok(call.option)
      [] call.fn = "aztec" ->
             AztecOption_new(call.option.mode, call.option.size,
                             call.option.correction_level)
                 = Ok(call.option)
      [] OTHER -> FALSE

LegalPdf417CorrectionLevel(l) ==
    IF l[1] = "Level" THEN l[2] \in 0..8 ELSE l[2] \in 1..40

(* The fields of an option that no constructor looks at are legal *)
UncheckedFieldsLegal ==
    CASE call.fn = "pdf417" ->
             LegalPdf417CorrectionLevel(call.option.correction_level)
      [] call.fn = "data_matrix" -> LegalDataMatrixType(call.option.code_type)
      [] call.fn = "aztec" -> LegalAztecMode(call.option.mode)

(* C19 as stated: whenever Pdf417Option::new, DataMatrixOption::new or     *)
(* AztecOption::new returned Ok, the builder (pdf417, data_matrix, aztec)  *)
(* does not fail on account of a field of that option.                     *)
C19_ConstructedOptionNeverFails ==
    (/\ Returned("pdf417") \/ Returned("data_matrix") \/ Returned("aztec")
     /\ BuiltOnConstructedOption) => ret[1].ok

(* C19, amended: the constructors validate the PDF417 columns and rows,    *)
(* the DataMatrix size, the Aztec size and correction level; the PDF417    *)
(* correction ratio, the DataMatrix type and the Aztec mode are validated  *)
(* by the builder alone, which on an option a constructor returned fails   *)
(* with an Input error and no commands exactly when that field is          *)
(* illegal.                                                                *)
C19_BuilderValidatesTheRest ==
    (/\ Returned("pdf417") \/ Returned("data_matrix") \/ Returned("aztec")
     /\ BuiltOnConstructedOption) =>
        /\ ret[1].ok <=> UncheckedFieldsLegal
        /\ ~ret[1].ok => ret[1].err = "Input" /\ ret[1].val = <<>>

(* pdf417() on the option that Pdf417Option::new returned for Ratio(41) *)
C19_Witness ==
    /\ Returned("pdf417") /\ BuiltOnConstructedOption
    /\ call.option.correction_level = <<"Ratio", 41>>
    /\ call.option.columns = 30 /\ call.option.rows = 90
    /\ ~ret[1].ok

---------------------------------------------------------------------------
(* The status decoder *)

Bit(byte, i) == (byte \div (2 ^ i)) % 2

MatchesTemplate(byte) ==
    Bit(byte, 0) = 0 /\ Bit(byte, 1) = 1 /\ Bit(byte, 4) = 1 /\ Bit(byte, 7) = 0

(* The flags of each category *)
FlagSet(request) ==
    CASE request = "Printer" ->
             {"DrawerKickOutConnectorPin3Low", "Online",
              "WaitingForOnlineRecovery", "PaperFeedButtonPressed"}
      [] request = "OfflineCause" ->
             {"CoverClosed", "PaperFedByPaperFeedButton",
              "PrintingStopsDueToPaperEnd", "ErrorOccurred"}
      [] request = "ErrorCause" ->
             {"RecoverableErrorOccurred", "AutocutterErrorOccurred",
              "UnrecoverableErrorOccurred", "AutoRecoverableErrorOccurred"}
      [] request = "RollPaperSensor" ->
             {"RollPaperNearEndSensorPaperAdequate",
              "RollPaperEndSensorPaperPresent"}
      [] request = "InkA" ->
             {"InkNearEndDetected", "InkEndDetected", "InkCartridgeDetected",
              "CleaningPerformed"}
      [] request = "InkB" ->
             {"InkNearEndDetected", "InkEndDetected", "InkCartridgeDetected"}
      [] request = "Peeler" ->
             {"WaitingForLabelToBeRemoved",
              "PaperPresentInLabelPeelingDetector"}
      [] request = "Interface" -> {"PrintingMultipleInterfacesEnabled"}
      [] request = "DMD" -> {"DMDTransmissionStatusReady"}

(* C20: for every category and every byte, parse returns an error and no   *)
(* flag map when the byte does not have bit 0 = 0, bit 1 = 1, bit 4 = 1    *)
(* and bit 7 = 0; for every byte that matches it returns Ok with a map     *)
(* whose keys are exactly the flags of the category, the same for all      *)
(* matching bytes, each with a boolean value.                              *)
C20_StatusDecodeTemplate ==
    Returned("RealTimeStatusResponse::parse") =>
        IF MatchesTemplate(call.response)
        THEN /\ ret[1].ok
             /\ DOMAIN ret[1].val = FlagSet(call.request)
             /\ \A f \in DOMAIN ret[1].val : ret[1].val[f] \in BOOLEAN
        ELSE /\ ~ret[1].ok /\ ret[1].err = "InvalidResponse"
             /\ ret[1].val = <<>>

(* 0x16, which the template admits, decoded for the roll paper sensor *)
C20_Witness ==
    /\ Returned("RealTimeStatusResponse::parse")
    /\ call.request = "RollPaperSensor" /\ call.response = 22
    /\ ret[1].ok
    /\ ret[1].val.RollPaperNearEndSensorPaperAdequate = FALSE
    /\ ret[1].val.RollPaperEndSensorPaperPresent = TRUE

(***************************************************************************)
(* Claims C21 to C30                                                       *)
(***************************************************************************)

(* The number of flags in a map parse returned *)
FlagCount == Cardinality(DOMAIN ret[1].val)

(* C21 as stated: for each of the 9 status categories, the flag map parse  *)
(* returns for a valid byte has between 2 and 4 named flags.               *)
C21_TwoToFourFlags ==
    (Returned("RealTimeStatusResponse::parse") /\ ret[1].ok) =>
        FlagCount \in 2..4

(* C21: for each of the 9 status categories, the flag map parse returns    *)
(* for a valid byte has between 1 and 4 named flags: exactly one for the   *)
(* Interface and DMD categories, and between 2 and 4 for the other seven.  *)
C21_OneToFourFlags ==
    (Returned("RealTimeStatusResponse::parse") /\ ret[1].ok) =>
        IF call.request \in {"Interface", "DMD"}
        THEN FlagCount = 1
        ELSE FlagCount \in 2..4

(* 0x12 decoded for the interface category: one flag *)
C21_Witness ==
    /\ Returned("RealTimeStatusResponse::parse")
    /\ call.request = "Interface" /\ call.response = 18
    /\ ret[1].ok
    /\ DOMAIN ret[1].val = {"PrintingMultipleInterfacesEnabled"}

(* The byte of 8 pixels from x in row y that C22 describes: pixel x + j    *)
(* is bit 7 - j, pixels beyond the width are 0.                            *)
PackedByte(image, x, y) ==
    LET bit(j) == IF x + j < image.width /\ image.gray[y + 1][x + j + 1] <= 128
                  THEN 2 ^ (7 - j) ELSE 0
    IN  bit(0) + bit(1) + bit(2) + bit(3) + bit(4) + bit(5) + bit(6) + bit(7)

(* C22: raster_data returns exactly ceil(width/8) * height bytes, rows top *)
(* to bottom; pixels are packed 8 per byte, most significant bit first,    *)
(* left to right, a bit being 1 iff the gray value is <= 128; in a row     *)
(* whose width is not a multiple of 8 the last byte is zero-padded on the  *)
(* right.                                                                  *)
C22_RasterZeroPaddedRight ==
    Returned("BitImage::raster_data") =>
        LET image == call.image
            wb == (image.width + 7) \div 8
        IN  /\ ret[1].ok
            /\ Len(ret[1].val) = wb * image.height
            /\ \A k \in 1..Len(ret[1].val) :
                   ret[1].val[k] =
                       PackedByte(image, ((k - 1) % wb) * 8, (k - 1) \div wb)

(* The value with_bytes_u8 or height_u8 splits: the image's width in bytes *)
(* or its height                                                           *)
FrameFieldValue ==
    IF call.fn = "BitImage::height_u8" THEN call.image.height
    ELSE (call.image.width + 7) \div 8

(* C24: for every image height and every width in bytes in 0..=65535,      *)
(* height_u8 and with_bytes_u8 return [v mod 256, v div 256], without      *)
(* error or arithmetic overflow.                                           *)
C24_FrameFieldsLittleEndian ==
    (/\ Returned("BitImage::height_u8") \/ Returned("BitImage::with_bytes_u8")
     /\ FrameFieldValue \in 0..65535
     /\ (call.fn = "BitImage::with_bytes_u8" => call.image.width \in 0..65535))
        => /\ ret[1].ok
           /\ ret[1].val = <<FrameFieldValue % 256, FrameFieldValue \div 256>>

(* The one HashMap a table's static may ever hold *)
BuiltTable(t) == <<[instance |-> 1, map |-> get_table(t)]>>

(* Each static's initializer has run at most once, a complete static holds *)
(* the whole table, and every thread that holds a reference sees it        *)
TablesBuiltOnce ==
    /\ \A t \in DOMAIN statics :
           /\ statics[t].builds <= 1
           /\ statics[t].once = "Complete" => statics[t].value = BuiltTable(t)
    /\ \A self \in Threads :
           threads[self].pc = "hold" =>
               threads[self].seen = BuiltTable(threads[self].table)

(* A complete static stays as it is *)
TablesImmutable ==
    \A t \in DOMAIN statics :
        statics[t].once = "Complete" => statics'[t] = statics[t]

(* C23: under concurrent first access by several threads, each page-code   *)
(* table is constructed at most once and every reader observes the same    *)
(* fully built table; once built, no step modifies it.                     *)
C23_TablesBuiltOncePublishedOnce ==
    []TablesBuiltOnce /\ [][TablesImmutable]_vars

(* Two threads hold references to the same table at once, and its          *)
(* initializer has run once                                                *)
C23_Witness ==
    /\ threads[1].pc = "hold" /\ threads[2].pc = "hold"
    /\ threads[1].table = "PC858" /\ threads[2].table = "PC858"
    /\ threads[1].seen = threads[2].seen
    /\ statics["PC858"].builds = 1

(* The commands a Line's overrides amount to in a style: font, then size,  *)
(* then justify, for the fields the line sets                              *)
StyleCommands(line, font, size, justify) ==
    (IF line.font # None THEN <<Protocol_font(font)>> ELSE <<>>)
    \o (IF line.size # <<>>
        THEN <<Protocol_text_size(size[1], size[2]).val>> ELSE <<>>)
    \o (IF line.justify # None THEN <<Protocol_justify(justify)>> ELSE <<>>)

(* A list of commands is the overrides, a body, the restores *)
RenderedAround(commands, body) ==
    commands =
        StyleCommands(call.line, call.line.font,
                      IF call.line.size # <<>> THEN call.line.size[1]
                      ELSE <<1, 1>>, call.line.justify)
        \o body
        \o StyleCommands(call.line, call.style_state.font,
                         call.style_state.text_size,
                         call.style_state.justify_mode)

(* A command is a text of spaces and pattern characters, not a style       *)
(* command                                                                 *)
IsLineText(command) ==
    /\ command # <<>>
    /\ \A i \in 1..Len(command) : command[i] \in {32, 45, 195, 169}

(* C25 as stated: a render that succeeds returns the overrides the line    *)
(* sets (font, size, justify), the line text, one line feed, and the       *)
(* restore commands for the overridden fields with the values of the style *)
(* state passed in; draw_line leaves the Printer's style state unchanged.  *)
C25_RenderAlwaysDrawsText ==
    /\ (Returned("Line::render") /\ ret[1].ok) =>
           \E i \in 1..Len(ret[1].val) :
               /\ IsLineText(ret[1].val[i])
               /\ RenderedAround(ret[1].val,
                                 <<ret[1].val[i], Protocol_feed(1)>>)
    /\ Returned("Printer::draw_line") =>
           ret[1].printer.style_state = call.printer.style_state

(* C25: a render that succeeds returns the overrides the line sets (font,  *)
(* then size, then justify, only those present), then the line text and    *)
(* one line feed, or neither when the line comes out empty, then the       *)
(* restore commands for exactly the overridden fields with the values of   *)
(* the style state passed in; draw_line leaves the Printer's style state   *)
(* unchanged and buffers the rendered commands as one instruction.         *)
C25_RenderOrder ==
    /\ (Returned("Line::render") /\ ret[1].ok) =>
           \/ RenderedAround(ret[1].val, <<>>)
           \/ \E i \in 1..Len(ret[1].val) :
                  /\ IsLineText(ret[1].val[i])
                  /\ RenderedAround(ret[1].val,
                                    <<ret[1].val[i], Protocol_feed(1)>>)
    /\ Returned("Printer::draw_line") =>
           /\ ret[1].printer.style_state = call.printer.style_state
           /\ ret[1].ok =>
                  Len(ret[1].printer.instructions)
                      = Len(call.printer.instructions) + 1

(* The line of test_draw_line, offset 4 at size (2, 2), left justified *)
C25_Witness ==
    /\ Returned("Line::render")
    /\ call.line = [font |-> None, size |-> <<<<2, 2>>>>, justify |-> "LEFT",
                    style |-> <<"Simple">>, width |-> <<>>, offset |-> 4]
    /\ call.style_state = PrinterStyleState_default
    /\ ret[1].ok
    /\ ret[1].val = <<<<29, 33, 17>>, <<27, 97, 0>>,
                      <<32, 32, 32, 32>> \o [i \in 1..17 |-> 45],
                      <<27, 100, 1>>, <<29, 33, 0>>, <<27, 97, 0>>>>

(* C29: for every line offset and width in 0..=255, every characters per   *)
(* line and every text width in 1..=8, Line::draw completes without        *)
(* arithmetic underflow (line_max_width - offset stays in 0..=255) and the *)
(* text command it emits has at most line_max_width =                      *)
(* characters_per_line / text_width bytes.                                 *)
C29_DrawWithinLine ==
    (Returned("Line::draw") /\ call.text_size \in 1..8) =>
        LET line_max_width == call.chars_per_line \div call.text_size IN
        /\ ret[1].err # "Panic"
        /\ line_max_width - call.line.offset \in 0..255
        /\ (ret[1].ok /\ ret[1].val # <<>>) =>
               Len(ret[1].val[1]) <= line_max_width

(* The buffer a call found is the head of the buffer it leaves *)
BufferGrowsAtEnd ==
    /\ Len(printer'.instructions) >= Len(printer.instructions)
    /\ SubSeq(printer'.instructions, 1, Len(printer.instructions))
           = printer.instructions

(* The Driver calls of a print(): write k carries the commands of          *)
(* instruction k of the buffer, concatenated in list order; a flush comes  *)
(* last, after all the writes; a print() that returns Ok has made them all *)
PrintWritesInBufferOrder ==
    last.op = "print" =>
        LET buffer == last.before.instructions
            writes == Writes(driver_log)
        IN  /\ Len(writes) <= Len(buffer)
            /\ \A k \in 1..Len(writes) :
                   /\ driver_log[k] = writes[k]
                   /\ writes[k].data = Concat(buffer[k].command)
            /\ Len(Flushes(driver_log)) <= 1
            /\ Flushes(driver_log) # <<>> =>
                   /\ Len(writes) = Len(buffer)
                   /\ driver_log[Len(driver_log)].op = "flush"
            /\ last.ok =>
                   /\ Len(writes) = Len(buffer)
                   /\ Len(Flushes(driver_log)) = 1

(* C26: print() writes the buffered instructions to the driver in exactly  *)
(* the order in which the builder calls appended them (every call other    *)
(* than a flush point leaves the buffer it found at the head of the        *)
(* buffer), each once, with the commands inside one instruction in their   *)
(* list order; driver.flush is called once, after the last write.          *)
C26_PrintWritesInAppendOrder ==
    /\ []PrintWritesInBufferOrder
    /\ [][last'.op \notin FlushOps => BufferGrowsAtEnd]_vars

(* A print() of two instructions with different bytes, one of them with    *)
(* several commands that differ from one another (a barcode or a line):    *)
(* two writes, in buffer order, each the commands of its instruction in    *)
(* list order, then the flush                                              *)
C26_Witness ==
    /\ last.op = "print"
    /\ last.ok
    /\ Len(last.before.instructions) = 2
    /\ \E k \in 1..2 :
           LET command == last.before.instructions[k].command IN
           /\ Len(command) >= 2
           /\ command[1] # command[Len(command)]
           /\ driver_log[k].data = command[1] \o Concat(Tail(command))
    /\ Concat(last.before.instructions[1].command)
           # Concat(last.before.instructions[2].command)
    /\ driver_log =
           <<WriteCall(Concat(last.before.instructions[1].command), TRUE),
             WriteCall(Concat(last.before.instructions[2].command), TRUE),
             FlushCall(TRUE)>>

(* A print() in which a driver.write failed *)
PrintFailedOnWrite ==
    /\ last.op = "print"
    /\ ~last.ok
    /\ \E k \in 1..Len(driver_log) :
           driver_log[k].op = "write" /\ ~driver_log[k].ok

(* The print() that follows a failed one at once starts over: its first    *)
(* write carries the first instruction of the buffer the failed print()    *)
(* found, and if it returns Ok it has written that whole buffer.           *)
NextPrintStartsOver ==
    (PrintFailedOnWrite /\ last'.op = "print") =>
        /\ last'.before.instructions = last.before.instructions
        /\ driver_log'[1] =
               WriteCall(flatten_commands(last.before.instructions[1]),
                         driver_log'[1].ok)
        /\ last'.ok =>
               Writes(driver_log') =
                   [k \in 1..Len(last.before.instructions) |->
                       WriteCall(flatten_commands(
                                     last.before.instructions[k]), TRUE)]

(* C27: if print() fails on a driver write, the instruction buffer and the *)
(* style state are left exactly as they were before the call, so a         *)
(* subsequent print() writes the whole buffer again from its first         *)
(* instruction, including instructions whose write had already succeeded.  *)
C27_FailedPrintKeepsBuffer ==
    /\ [](PrintFailedOnWrite =>
              /\ printer.instructions = last.before.instructions
              /\ printer.style_state = last.before.style_state)
    /\ [][NextPrintStartsOver]_vars

(* The second of two writes failed: the first instruction was written, and *)
(* both are still buffered, under a style state that is not the default    *)
C27_Witness ==
    /\ PrintFailedOnWrite
    /\ Len(driver_log) = 2
    /\ driver_log[1].ok
    /\ Len(printer.instructions) = 2
    /\ printer.instructions = last.before.instructions
    /\ printer.style_state # PrinterStyleState_default

(* The builders of the 2D symbols *)
SymbolBuilders ==
    {"qrcode", "pdf417", "gs1_databar_2d", "data_matrix", "aztec",
     "maxi_code"}

(* C28: every command produced by the 2D symbol builders that starts with  *)
(* 1D 28 6B carries length bytes pL, pH such that pL + 256*pH equals the   *)
(* number of bytes that follow pH in that command, for setup, data and     *)
(* print commands alike.                                                   *)
C28_FrameLengthsMatch ==
    (call.fn \in SymbolBuilders /\ ret # <<>> /\ ret[1].ok) =>
        \A k \in 1..Len(ret[1].val) :
            LET cmd == ret[1].val[k] IN
            (Len(cmd) >= 5 /\ SubSeq(cmd, 1, 3) = GS_2D) =>
                cmd[4] + 256 * cmd[5] = Len(cmd) - 5

(* The bytes the claim gives a character: its code point for an ASCII      *)
(* character, the table's or the encoder's bytes for any other             *)
AsciiKept(c, table) == IF c < 128 THEN <<c>> ELSE EncodingOf(c, table)

(* C30: with any page code that has a table, text() emits each ASCII       *)
(* character (U+0000..U+007F) of the input as the single byte equal to its *)
(* code point; only non-ASCII characters are translated through the table. *)
C30_AsciiPassesThrough ==
    (Returned("text") /\ call.page_code \in PageCodesWithTable
                      /\ call.max_length = NoLimit) =>
        /\ ret[1].ok
        /\ ret[1].val =
               Concat([i \in 1..Len(call.text) |->
                          AsciiKept(call.text[i], get_table(call.page_code))])
====
